---- MODULE Spec2Model ----
(***************************************************************************)
(* StreamForge: the moderation pipeline (ContentModerator), the feed state *)
(* manager (FeedManager) and the platform supervisor (PlatformManager).    *)
(*                                                                         *)
(* A JS string is a sequence of one-character strings.  The JS value       *)
(* undefined of a string-typed field is the one-element sequence           *)
(* Undefined, which no string equals.  JS booleans that may also be        *)
(* undefined (fields of a parsed classifier answer) are "true", "false"    *)
(* and "undefined".                                                        *)
(***************************************************************************)
EXTENDS Integers, Sequences, FiniteSets, Bags, TLC

VARIABLES
    ruleIn,       \* the comment handed to ruleCheck
    ruleOut,      \* what ruleCheck returned for it (NoResult before the call)
    config,       \* FeedManager.config: maxFeedSize, pushToVmix, vmixInput, useAI
    feed,         \* FeedManager.feed: enriched comments, index 1 is the head
    stats,        \* FeedManager.stats: total, approved, blocked, byPlatform
    cache,        \* ContentModerator.cache: cacheKey -> moderation result
    aiAvailable,  \* ContentModerator.aiAvailable
    aiPending,    \* bag of comments whose moderate() is suspended in ollama.chat
    mq,           \* microtask queue: addComment continuations, oldest first
    burst,        \* TRUE while a source is still emitting comments synchronously
    vmixPending,  \* bag of sink requests in flight
    emitted,      \* the events the last step emitted, in order
    nStarted,     \* number of addComment calls started (bounds the run)
    settled,      \* how many addComment promises were fulfilled, how many rejected
    aiCalls,      \* cacheKey -> classifier invocations since the last clearCache
    returned,     \* cacheKey -> results moderate() returned since the last clearCache
    modOut,       \* what the last moderate() call that returned has returned
    history,      \* an observer's log of what happened, in order: approvals and
                  \* pins since the last clear, or the calls made
    snapshot,     \* the list the last getFeed() returned to its caller: the items
                  \* as the caller sees them and where each object is in the buffer
    pm,           \* PlatformManager: _platforms, the adapter instances, the calls
                  \* in flight and the events emitted while they were
    pmLast,       \* the outcome of the last PlatformManager call that returned
    live,         \* the adapter instances whose start() was invoked: their
                  \* handlers, polls and connections emit events from then on
    pushing,      \* FeedManager._pushTimer, the intervals set and not cleared,
                  \* and the init() calls that have not returned
    yt            \* a YouTubeChat adapter: _running, _timer, the timeouts and
                  \* requests pending, and what the last step emitted

ruleVars == <<ruleIn, ruleOut>>
modVars == <<config, cache, aiAvailable, aiPending>>
modGhosts == <<aiCalls, returned, modOut>>
feedVars == <<feed, stats, mq, burst, vmixPending, emitted>>
pmVars == <<pm, pmLast>>
callerVars == <<snapshot>>
adapterVars == <<live>>
timerVars == <<pushing>>
pollerVars == <<yt>>
vars == <<ruleVars, modVars, modGhosts, feedVars, nStarted, settled, history, pmVars,
          callerVars, adapterVars, timerVars, pollerVars>>

(***************************************************************************)
(* Strings                                                                 *)
(***************************************************************************)
Undefined == <<"#undefined">>

LowerCase == <<"a","b","c","d","e","f","g","h","i","j","k","l","m",
               "n","o","p","q","r","s","t","u","v","w","x","y","z">>
UpperCase == <<"A","B","C","D","E","F","G","H","I","J","K","L","M",
               "N","O","P","Q","R","S","T","U","V","W","X","Y","Z">>
Digits == {"0","1","2","3","4","5","6","7","8","9"}

Range(f) == {f[i] : i \in DOMAIN f}

\* the /i flag: both sides are compared after case folding
ToLower(ch) ==
    IF \E i \in 1..26 : UpperCase[i] = ch
    THEN LowerCase[CHOOSE i \in 1..26 : UpperCase[i] = ch]
    ELSE ch

\* \w is [A-Za-z0-9_]; \W is everything else
IsWordChar(ch) == ch \in Range(LowerCase) \cup Range(UpperCase) \cup Digits \cup {"_"}

\* \s, and what String.prototype.trim strips
IsSpace(ch) == ch \in {" ", "\t", "\n", "\r"}

\* . matches anything but a line terminator
IsLineTerminator(ch) == ch \in {"\n", "\r"}

LiteralAt(s, i, lit) ==
    /\ i >= 1
    /\ i + Len(lit) - 1 <= Len(s)
    /\ \A k \in 1..Len(lit) : ToLower(s[i + k - 1]) = lit[k]

\* \b at the gap before position i (i in 1..Len(s)+1)
WordAt(s, i) == i >= 1 /\ i <= Len(s) /\ IsWordChar(s[i])
WordBoundary(s, i) == WordAt(s, i - 1) # WordAt(s, i)

\* String.prototype.trim
RECURSIVE TrimLeft(_)
TrimLeft(s) == IF s # <<>> /\ IsSpace(Head(s)) THEN TrimLeft(Tail(s)) ELSE s
RECURSIVE TrimRight(_)
TrimRight(s) ==
    IF s # <<>> /\ IsSpace(s[Len(s)]) THEN TrimRight(SubSeq(s, 1, Len(s) - 1)) ELSE s
Trim(s) == TrimRight(TrimLeft(s))

\* String.prototype.includes for a one-character needle
Includes(s, ch) == \E i \in 1..Len(s) : s[i] = ch

\* `${v}`: undefined prints as the text "undefined"
TemplateString(v) ==
    IF v = Undefined THEN <<"u","n","d","e","f","i","n","e","d">> ELSE v

(***************************************************************************)
(* The rule stage: BLOCKED_PATTERNS, SPAM_PATTERNS, ruleCheck               *)
(***************************************************************************)
BlockedWords == {
    <<"s","p","a","m">>,
    <<"b","u","y"," ","n","o","w">>,
    <<"c","l","i","c","k"," ","h","e","r","e">>,
    <<"f","r","e","e"," ","m","o","n","e","y">>,
    <<"o","n","l","y","f","a","n","s">> }

\* /\b(spam|buy now|click here|free money|onlyfans)\b/i
MatchKeyword(s) ==
    \E i \in 1..Len(s) : \E w \in BlockedWords :
        /\ LiteralAt(s, i, w)
        /\ WordBoundary(s, i)
        /\ WordBoundary(s, i + Len(w))

\* https?:\/\/ at position i: the length matched, or 0
UrlPrefixAt(s, i) ==
    IF LiteralAt(s, i, <<"h","t","t","p","s",":","/","/">>) THEN 8
    ELSE IF LiteralAt(s, i, <<"h","t","t","p",":","/","/">>) THEN 7
    ELSE 0

\* /https?:\/\/[^\s]+ https?:\/\//i
MatchMultiLink(s) ==
    \E i \in 1..Len(s) :
        /\ UrlPrefixAt(s, i) > 0
        /\ \E j \in (i + UrlPrefixAt(s, i) + 1)..Len(s) :
              /\ \A k \in (i + UrlPrefixAt(s, i))..(j - 1) : ~IsSpace(s[k])
              /\ s[j] = " "
              /\ UrlPrefixAt(s, j + 1) > 0

\* /^(.)\1{10,}$/
MatchRepeated(s) ==
    /\ Len(s) >= 11
    /\ ~IsLineTerminator(s[1])
    /\ \A k \in 1..Len(s) : s[k] = s[1]

\* /^\W+$/
MatchSymbolsOnly(s) ==
    /\ Len(s) >= 1
    /\ \A k \in 1..Len(s) : ~IsWordChar(s[k])

\* /first\s*!+$/i
MatchFirst(s) ==
    \E i \in 1..Len(s) :
        /\ LiteralAt(s, i, <<"f","i","r","s","t">>)
        /\ \E j \in (i + 5)..Len(s) :
              /\ \A k \in (i + 5)..(j - 1) : IsSpace(s[k])
              /\ \A k \in j..Len(s) : s[k] = "!"

\* RegExp.prototype.test for the five patterns, named by what they look for
RegexTest(pattern, s) ==
    CASE pattern = "keyword"   -> MatchKeyword(s)
      [] pattern = "multilink" -> MatchMultiLink(s)
      [] pattern = "repeated"  -> MatchRepeated(s)
      [] pattern = "symbols"   -> MatchSymbolsOnly(s)
      [] pattern = "first"     -> MatchFirst(s)

BLOCKED_PATTERNS == <<"keyword", "multilink">>
SPAM_PATTERNS == <<"repeated", "symbols", "first">>

\* for (const pattern of patterns) if (pattern.test(msg)) ...
AnyMatch(patterns, s) == \E i \in 1..Len(patterns) : RegexTest(patterns[i], s)

Result(allow, highlight, reason) ==
    [allow |-> allow, highlight |-> highlight, reason |-> reason]

BoolStr(b) == IF b THEN "true" ELSE "false"

\* comment.message || ''
\* variant: the message is rendered as text instead of defaulted to ''
MessageAsText(comment) == TemplateString(comment.message)

MessageOrEmpty(comment) ==
    IF comment.message = Undefined THEN <<>> ELSE comment.message

\* variant: the spam patterns are tried before the blocklist
ruleCheckSpamFirst(comment) ==
    LET msg == MessageOrEmpty(comment) IN
    IF AnyMatch(SPAM_PATTERNS, msg) THEN Result("false", "false", "spam pattern")
    ELSE IF AnyMatch(BLOCKED_PATTERNS, msg)
         THEN Result("false", "false", "blocked pattern")
    ELSE IF Len(Trim(msg)) < 2 THEN Result("false", "false", "too short")
    ELSE Result("true", BoolStr(Includes(msg, "?") /\ Len(msg) > 15), "passed rules")

ruleCheck(comment) ==
    LET msg == MessageOrEmpty(comment) IN
    IF AnyMatch(BLOCKED_PATTERNS, msg)
    THEN Result("false", "false", "blocked pattern")
    ELSE IF AnyMatch(SPAM_PATTERNS, msg)
    THEN Result("false", "false", "spam pattern")
    ELSE IF Len(Trim(msg)) < 2
    THEN Result("false", "false", "too short")
    ELSE Result("true", BoolStr(Includes(msg, "?") /\ Len(msg) > 15), "passed rules")


(***************************************************************************)
(* Comments, results, events                                               *)
(***************************************************************************)
Comment(id, platform, author, message) ==
    [id |-> id, platform |-> platform, author |-> author, message |-> message]

Ann == <<"a","n","n">>
Bob == <<"b","o","b">>

\* allowed by the rules, not highlighted
cHello == Comment("c1", "youtube", Ann, <<"h","e","l","l","o">>)
\* allowed by the rules and highlighted: a '?' and 16 characters
cQuestion == Comment("c2", "twitch", Bob,
    <<"w","h","a","t"," ","i","s"," ","t","h","e"," ","N","D","I","?">>)
\* blocked by the rules
cSpam == Comment("c3", "twitch", Bob, <<"s","p","a","m">>)
\* malformed: no message field
cNoMessage == Comment("c4", "x", Ann, Undefined)
\* the text "undefined", by the author of cNoMessage
cUndefinedText == Comment("c5", "youtube", Ann,
    <<"u","n","d","e","f","i","n","e","d">>)
\* a fourth allowed comment
cThanks == Comment("c6", "tiktok", Bob, <<"t","h","a","n","k","s">>)

Comments == {cUndefinedText, cNoMessage, cSpam}
SeqComments == {cHello, cQuestion, cUndefinedText, cThanks, cSpam}
SinkComments == {cQuestion, cNoMessage}
ModComments == {cHello, cQuestion, cSpam}
Ids == {"c0", "c1", "c2", "c3", "c4", "c5", "c6"}

\* bounds of the model
MaxCalls == 3
MaxSeqCalls == 4
MaxSinkCalls == 2
MaxModCalls == 3
MaxPins == 1
MaxPending == 1

NoResult == Result("none", "none", "none")
ReasonUndefined == "#undefined"

\* what ollama.chat can come back with
AIResponses == {
    [kind |-> "error",   obj |-> NoResult],   \* the call rejects
    [kind |-> "nocontent", obj |-> NoResult], \* a reply without message.content
    [kind |-> "text",    obj |-> NoResult],   \* prose, no {...} in it
    [kind |-> "badjson", obj |-> NoResult],   \* a {...} that is not JSON
    [kind |-> "json",    obj |-> Result("true", "false", "ai ok")],
    [kind |-> "json",    obj |-> Result("true", "true", "ai highlight")],
    [kind |-> "json",    obj |-> Result("false", "false", "ai block")],
    [kind |-> "json",    obj |-> Result("undefined", "undefined", ReasonUndefined)] }

\* JS truthiness of a boolean-or-undefined field
Truthy(v) == v = "true"

Event(type, payload) == [type |-> type, payload |-> payload]

EmptyMap == [k \in {} |-> 0]
Put(f, k, v) == [x \in DOMAIN f \cup {k} |-> IF x = k THEN v ELSE f[x]]
CountOf(f, k) == IF k \in DOMAIN f THEN f[k] ELSE 0
SetOf(f, k) == IF k \in DOMAIN f THEN f[k] ELSE {}

\* one more addComment promise fulfilled
Fulfil(s) == [s EXCEPT !.fulfilled = @ + 1]

NewStats == [total |-> 0, approved |-> 0, blocked |-> 0, byPlatform |-> EmptyMap]

(***************************************************************************)
(* ContentModerator                                                        *)
(***************************************************************************)
cacheKey(comment) ==
    TemplateString(comment.author) \o <<":">> \o TemplateString(comment.message)

\* variant: the classifier is asked before the rule verdict is looked at
moderatePathAIFirst(comment) ==
    IF cacheKey(comment) \in DOMAIN cache THEN "hit"
    ELSE IF config.useAI /\ aiAvailable THEN "ai"
    ELSE "rule"

\* variant: the classifier is asked whenever it is enabled, probed or not
moderatePathIgnoresProbe(comment) ==
    IF cacheKey(comment) \in DOMAIN cache THEN "hit"
    ELSE IF ~Truthy(ruleCheck(comment).allow) THEN "rule"
    ELSE IF config.useAI THEN "ai"
    ELSE "rule"

\* the way moderate() takes: "hit" (returns the cached result), "rule" (caches
\* and returns the rule result) or "ai" (suspends in aiCheck)
moderatePath(comment) ==
    IF cacheKey(comment) \in DOMAIN cache THEN "hit"
    ELSE IF ~Truthy(ruleCheck(comment).allow) THEN "rule"
    ELSE IF config.useAI /\ aiAvailable THEN "ai"
    ELSE "rule"

\* the value moderate() returns when it does not suspend
moderateNow(comment) ==
    IF moderatePath(comment) = "hit" THEN cache[cacheKey(comment)]
    ELSE ruleCheck(comment)

\* moderate() up to its return or its suspension in ollama.chat
moderateStart(comment) ==
    CASE moderatePath(comment) = "hit" ->
            UNCHANGED <<cache, aiPending>>
      [] moderatePath(comment) = "rule" ->
            /\ cache' = Put(cache, cacheKey(comment), ruleCheck(comment))
            /\ UNCHANGED aiPending
      [] moderatePath(comment) = "ai" ->
            /\ aiPending' = aiPending (+) SetToBag({comment})
            /\ UNCHANGED cache

\* aiCheck() after ollama.chat settled: thrown, or the value returned
aiCheck(response) ==
    CASE response.kind = "error"   -> [thrown |-> TRUE, value |-> NoResult]
      [] response.kind = "nocontent" -> [thrown |-> TRUE, value |-> NoResult]
      [] response.kind = "text"    ->
            [thrown |-> FALSE, value |-> Result("true", "false", "ai parse failed")]
      [] response.kind = "badjson" -> [thrown |-> TRUE, value |-> NoResult]
      [] response.kind = "json"    -> [thrown |-> FALSE, value |-> response.obj]

\* variant: a failed classifier call gives the parse-failure default
moderateAfterAIDefault(comment, response) ==
    IF aiCheck(response).thrown THEN Result("true", "false", "ai parse failed")
    ELSE aiCheck(response).value

\* the value moderate() returns after aiCheck settled
moderateAfterAI(comment, response) ==
    IF aiCheck(response).thrown THEN ruleCheck(comment) ELSE aiCheck(response).value

\* moderate() from the settling of ollama.chat to its return
moderateSettle(comment, response) ==
    /\ BagIn(comment, aiPending)
    /\ aiPending' = aiPending (-) SetToBag({comment})
    /\ cache' = Put(cache, cacheKey(comment), moderateAfterAI(comment, response))

\* ContentModerator.init(): the availability probe settles
moderatorInit(ok) ==
    /\ mq = <<>>
    /\ aiAvailable' = ok
    /\ emitted' = <<>>
    /\ UNCHANGED <<config, cache, aiPending, modGhosts, feed, stats, mq, burst,
                   vmixPending, nStarted, settled>>

\* a caller's moderate(c), to its return or suspension
ModerateCall(c) ==
    /\ nStarted < MaxModCalls
    /\ nStarted' = nStarted + 1
    /\ moderateStart(c)
    /\ IF moderatePath(c) = "ai"
       THEN /\ aiCalls' = Put(aiCalls, cacheKey(c), CountOf(aiCalls, cacheKey(c)) + 1)
            /\ UNCHANGED <<returned, modOut>>
       ELSE /\ modOut' = moderateNow(c)
            /\ returned' = Put(returned, cacheKey(c),
                               SetOf(returned, cacheKey(c)) \cup {moderateNow(c)})
            /\ UNCHANGED aiCalls
    /\ UNCHANGED <<config, aiAvailable, feedVars, settled>>

\* a suspended moderate(c) resumes with the classifier's response and returns
ModerateReturn(c, response) ==
    /\ moderateSettle(c, response)
    /\ modOut' = moderateAfterAI(c, response)
    /\ returned' = Put(returned, cacheKey(c),
                       SetOf(returned, cacheKey(c)) \cup {moderateAfterAI(c, response)})
    /\ UNCHANGED <<config, aiAvailable, aiCalls, feedVars, nStarted, settled>>

clearCache ==
    /\ cache' = EmptyMap
    /\ aiCalls' = EmptyMap
    /\ returned' = EmptyMap
    /\ UNCHANGED <<config, aiAvailable, aiPending, modOut, feedVars, nStarted, settled>>

(***************************************************************************)
(* FeedManager                                                             *)
(***************************************************************************)
Enrich(comment, result) ==
    [id |-> comment.id, platform |-> comment.platform, author |-> comment.author,
     message |-> comment.message,
     highlighted |-> Truthy(result.highlight), pinned |-> FALSE]

Least(a, b) == IF a < b THEN a ELSE b

\* variant: the buffer is trimmed before the new item is put in front
InsertAfterTrim(buf, enriched) ==
    <<enriched>> \o SubSeq(buf, 1, IF Len(buf) > config.maxFeedSize
                                    THEN config.maxFeedSize ELSE Len(buf))

\* variant: the new item is pushed at the tail
InsertAtTail(buf, enriched) ==
    IF Len(buf) + 1 > config.maxFeedSize
    THEN SubSeq(buf \o <<enriched>>, 1, config.maxFeedSize)
    ELSE buf \o <<enriched>>

\* variant: the new item is put behind the item at the head
InsertBehindHead(buf, enriched) ==
    LET all == IF buf = <<>> THEN <<enriched>>
               ELSE <<Head(buf), enriched>> \o Tail(buf)
    IN SubSeq(all, 1, Least(Len(all), config.maxFeedSize))

\* this.feed.unshift(enriched); if (length > maxFeedSize) slice(0, maxFeedSize)
InsertAndTrim(buf, enriched) ==
    IF Len(buf) + 1 > config.maxFeedSize
    THEN SubSeq(<<enriched>> \o buf, 1, config.maxFeedSize)
    ELSE <<enriched>> \o buf

\* this.feed.findIndex((c) => c.id === id): 0 when there is none
FindIndex(buf, id) ==
    IF \E i \in 1..Len(buf) : buf[i].id = id
    THEN CHOOSE i \in 1..Len(buf) :
            buf[i].id = id /\ \A j \in 1..(i - 1) : buf[j].id # id
    ELSE 0

\* Math.round of the non-negative quotient num / den
MathRound(num, den) == (2 * num + den) \div (2 * den)

\* getStats()
getStats ==
    [total |-> stats.total, approved |-> stats.approved, blocked |-> stats.blocked,
     byPlatform |-> stats.byPlatform,
     feedSize |-> Len(feed),
     approvalRate |-> IF stats.total > 0
                      THEN MathRound(stats.approved * 100, stats.total) ELSE 0]

\* getFeed(limit)
getFeed(limit) == SubSeq(feed, 1, IF limit < Len(feed) THEN limit ELSE Len(feed))

\* _pushSingleToVmix up to its first suspension: the requests it leaves in flight
pushSingleToVmix(owner, comment) ==
    IF config.vmixInput = "null" THEN EmptyBag
    ELSE SetToBag({[owner |-> owner, stage |-> "setTitleFields", id |-> comment.id]})

\* no addComment call is in flight
Idle ==
    /\ mq = <<>>
    /\ aiPending = EmptyBag
    /\ \A p \in BagToSet(vmixPending) : p.owner # "addComment"

\* addComment up to `await this.moderator.moderate(comment)`
AddCommentStart(c, limit) ==
    /\ nStarted < limit
    /\ mq = <<>> \/ burst
    /\ nStarted' = nStarted + 1
    /\ stats' = [stats EXCEPT !.total = @ + 1,
                    !.byPlatform = Put(@, c.platform, CountOf(@, c.platform) + 1)]
    /\ emitted' = <<>>
    /\ moderateStart(c)
    /\ mq' = IF moderatePath(c) = "ai" THEN mq
             ELSE Append(mq, [c |-> c, result |-> moderateNow(c)])
    /\ burst' = (mq' # <<>>)
    /\ UNCHANGED <<config, aiAvailable, modGhosts, feed, vmixPending, settled>>

\* variant: moderate() without its try/catch, a classifier failure rejects the
\* addComment call
AIReturnNoCatch(c, response) ==
    /\ mq = <<>>
    /\ BagIn(c, aiPending)
    /\ aiPending' = aiPending (-) SetToBag({c})
    /\ IF aiCheck(response).thrown
       THEN /\ UNCHANGED <<cache, mq>>
            /\ settled' = [settled EXCEPT !.rejected = @ + 1]
       ELSE /\ cache' = Put(cache, cacheKey(c), aiCheck(response).value)
            /\ mq' = <<[c |-> c, result |-> aiCheck(response).value]>>
            /\ UNCHANGED settled
    /\ burst' = FALSE
    /\ emitted' = <<>>
    /\ UNCHANGED <<config, aiAvailable, modGhosts, feed, stats, vmixPending,
                   nStarted>>

\* variant: the continuation of the call runs twice
AIReturnTwice(c, response) ==
    /\ mq = <<>>
    /\ moderateSettle(c, response)
    /\ mq' = <<[c |-> c, result |-> moderateAfterAI(c, response)],
               [c |-> c, result |-> moderateAfterAI(c, response)]>>
    /\ burst' = FALSE
    /\ emitted' = <<>>
    /\ UNCHANGED <<config, aiAvailable, modGhosts, feed, stats, vmixPending,
                   nStarted, settled>>

\* ollama.chat settles for one suspended addComment: moderate() caches and
\* returns, and the addComment continuation is queued
AIReturn(c, response) ==
    /\ mq = <<>>
    /\ moderateSettle(c, response)
    /\ mq' = <<[c |-> c, result |-> moderateAfterAI(c, response)]>>
    /\ burst' = FALSE
    /\ emitted' = <<>>
    /\ UNCHANGED <<config, aiAvailable, modGhosts, feed, stats, vmixPending,
                   nStarted, settled>>

\* variant: the item is put in the buffer before the verdict is looked at
AddCommentResumeInsertFirst ==
    /\ mq # <<>>
    /\ mq' = Tail(mq)
    /\ burst' = FALSE
    /\ LET c == Head(mq).c
           result == Head(mq).result
           enriched == Enrich(c, result)
       IN /\ feed' = InsertAndTrim(feed, enriched)
          /\ IF ~Truthy(result.allow)
             THEN /\ stats' = [stats EXCEPT !.blocked = @ + 1]
                  /\ emitted' = <<Event("comment:blocked",
                                        [comment |-> c, reason |-> result.reason])>>
                  /\ UNCHANGED vmixPending
                  /\ settled' = Fulfil(settled)
             ELSE /\ stats' = [stats EXCEPT !.approved = @ + 1]
                  /\ emitted' = <<Event("comment:approved", enriched)>> \o
                       (IF enriched.highlighted
                        THEN <<Event("comment:highlighted", enriched)>> ELSE <<>>)
                  /\ vmixPending' = vmixPending (+)
                       (IF enriched.highlighted /\ config.pushToVmix
                        THEN pushSingleToVmix("addComment", enriched) ELSE EmptyBag)
                  /\ settled' = IF vmixPending' = vmixPending
                                THEN Fulfil(settled) ELSE settled
    /\ UNCHANGED <<modVars, modGhosts, nStarted>>

\* variant: a blocked comment is dropped without an event
AddCommentResumeBlockedSilent ==
    /\ mq # <<>>
    /\ mq' = Tail(mq)
    /\ burst' = FALSE
    /\ LET c == Head(mq).c
           result == Head(mq).result
           enriched == Enrich(c, result)
       IN IF ~Truthy(result.allow)
          THEN /\ stats' = [stats EXCEPT !.blocked = @ + 1]
               /\ emitted' = <<>>
               /\ UNCHANGED <<feed, vmixPending>>
               /\ settled' = Fulfil(settled)
          ELSE /\ stats' = [stats EXCEPT !.approved = @ + 1]
               /\ feed' = InsertAndTrim(feed, enriched)
               /\ emitted' = <<Event("comment:approved", enriched)>> \o
                    (IF enriched.highlighted
                     THEN <<Event("comment:highlighted", enriched)>> ELSE <<>>)
               /\ vmixPending' = vmixPending (+)
                    (IF enriched.highlighted /\ config.pushToVmix
                     THEN pushSingleToVmix("addComment", enriched) ELSE EmptyBag)
               /\ settled' = IF vmixPending' = vmixPending
                             THEN Fulfil(settled) ELSE settled
    /\ UNCHANGED <<modVars, modGhosts, nStarted>>

\* addComment after the await, for the oldest queued continuation
AddCommentResume ==
    /\ mq # <<>>
    /\ mq' = Tail(mq)
    /\ burst' = FALSE
    /\ LET c == Head(mq).c
           result == Head(mq).result
           enriched == Enrich(c, result)
       IN IF ~Truthy(result.allow)
          THEN /\ stats' = [stats EXCEPT !.blocked = @ + 1]
               /\ emitted' = <<Event("comment:blocked",
                                     [comment |-> c, reason |-> result.reason])>>
               /\ UNCHANGED <<feed, vmixPending>>
               /\ settled' = Fulfil(settled)
          ELSE /\ stats' = [stats EXCEPT !.approved = @ + 1]
               /\ feed' = InsertAndTrim(feed, enriched)
               /\ emitted' = <<Event("comment:approved", enriched)>> \o
                    (IF enriched.highlighted
                     THEN <<Event("comment:highlighted", enriched)>> ELSE <<>>)
               /\ vmixPending' = vmixPending (+)
                    (IF enriched.highlighted /\ config.pushToVmix
                     THEN pushSingleToVmix("addComment", enriched) ELSE EmptyBag)
               /\ settled' = IF vmixPending' = vmixPending
                             THEN Fulfil(settled) ELSE settled
    /\ UNCHANGED <<modVars, modGhosts, nStarted>>

\* variant: _pushSingleToVmix without its try/catch, a failed request rejects
\* the addComment call that awaits it
VmixReplyNoCatch(p, ok) ==
    /\ mq = <<>>
    /\ BagIn(p, vmixPending)
    /\ vmixPending' =
         IF ok /\ p.stage = "setTitleFields"
         THEN (vmixPending (-) SetToBag({p})) (+)
              SetToBag({[p EXCEPT !.stage = "titleBeginAnimation"]})
         ELSE vmixPending (-) SetToBag({p})
    /\ settled' =
         IF p.owner # "addComment" \/ (ok /\ p.stage = "setTitleFields") THEN settled
         ELSE IF ok THEN Fulfil(settled)
         ELSE [settled EXCEPT !.rejected = @ + 1]
    /\ emitted' = <<>>
    /\ UNCHANGED <<modVars, modGhosts, feed, stats, mq, burst, nStarted>>

\* variant: a highlight whose push failed is taken back
VmixReplyRetracts(p, ok) ==
    /\ mq = <<>>
    /\ BagIn(p, vmixPending)
    /\ vmixPending' =
         IF ok /\ p.stage = "setTitleFields"
         THEN (vmixPending (-) SetToBag({p})) (+)
              SetToBag({[p EXCEPT !.stage = "titleBeginAnimation"]})
         ELSE vmixPending (-) SetToBag({p})
    /\ settled' =
         IF p.owner = "addComment" /\ ~(ok /\ p.stage = "setTitleFields")
         THEN Fulfil(settled) ELSE settled
    /\ feed' = IF ok THEN feed
               ELSE [i \in 1..Len(feed) |->
                       IF feed[i].id = p.id
                       THEN [feed[i] EXCEPT !.highlighted = FALSE] ELSE feed[i]]
    /\ emitted' = <<>>
    /\ UNCHANGED <<modVars, modGhosts, stats, mq, burst, nStarted>>

\* one sink request settles; setTitleFields is followed by titleBeginAnimation,
\* a failure is swallowed; the addComment call awaiting the push returns after
\* the last request or the failure
VmixReply(p, ok) ==
    /\ mq = <<>>
    /\ BagIn(p, vmixPending)
    /\ vmixPending' =
         IF ok /\ p.stage = "setTitleFields"
         THEN (vmixPending (-) SetToBag({p})) (+)
              SetToBag({[p EXCEPT !.stage = "titleBeginAnimation"]})
         ELSE vmixPending (-) SetToBag({p})
    /\ settled' =
         IF p.owner = "addComment" /\ ~(ok /\ p.stage = "setTitleFields")
         THEN Fulfil(settled) ELSE settled
    /\ emitted' = <<>>
    /\ UNCHANGED <<modVars, modGhosts, feed, stats, mq, burst, nStarted>>

\* variant: filter instead of find, every buffered item with the id is flagged
highlightEvery(commentId) ==
    /\ mq = <<>>
    /\ LET idx == FindIndex(feed, commentId) IN
       IF idx > 0
       THEN /\ BagCardinality(vmixPending) < MaxPending \/ config.vmixInput = "null"
            /\ feed' = [i \in 1..Len(feed) |->
                          IF feed[i].id = commentId
                          THEN [feed[i] EXCEPT !.highlighted = TRUE] ELSE feed[i]]
            /\ emitted' = <<Event("comment:highlighted", feed'[idx])>>
            /\ vmixPending' = vmixPending (+) pushSingleToVmix("highlight", feed[idx])
       ELSE /\ emitted' = <<>>
            /\ UNCHANGED <<feed, vmixPending>>
    /\ UNCHANGED <<modVars, modGhosts, stats, mq, burst, nStarted, settled>>

highlight(commentId) ==
    /\ mq = <<>>
    /\ LET idx == FindIndex(feed, commentId) IN
       IF idx > 0
       THEN /\ BagCardinality(vmixPending) < MaxPending \/ config.vmixInput = "null"
            /\ feed' = [feed EXCEPT ![idx].highlighted = TRUE]
            /\ emitted' = <<Event("comment:highlighted", feed'[idx])>>
            /\ vmixPending' = vmixPending (+) pushSingleToVmix("highlight", feed[idx])
       ELSE /\ emitted' = <<>>
            /\ UNCHANGED <<feed, vmixPending>>
    /\ UNCHANGED <<modVars, modGhosts, stats, mq, burst, nStarted, settled>>

\* variant: the item changes places with the head instead of being spliced out
pinSwap(commentId) ==
    /\ mq = <<>>
    /\ LET idx == FindIndex(feed, commentId) IN
       IF idx > 0
       THEN /\ feed' = [i \in 1..Len(feed) |->
                          IF i = 1 THEN [feed[idx] EXCEPT !.pinned = TRUE]
                          ELSE IF i = idx THEN feed[1] ELSE feed[i]]
            /\ emitted' = <<Event("comment:pinned", feed'[1])>>
       ELSE /\ emitted' = <<>>
            /\ UNCHANGED feed
    /\ UNCHANGED <<modVars, modGhosts, stats, mq, burst, vmixPending, nStarted, settled>>

pin(commentId) ==
    /\ mq = <<>>
    /\ LET idx == FindIndex(feed, commentId) IN
       IF idx > 0
       THEN /\ feed' = <<[feed[idx] EXCEPT !.pinned = TRUE]>> \o
                       SubSeq(feed, 1, idx - 1) \o SubSeq(feed, idx + 1, Len(feed))
            /\ emitted' = <<Event("comment:pinned", feed'[1])>>
       ELSE /\ emitted' = <<>>
            /\ UNCHANGED feed
    /\ UNCHANGED <<modVars, modGhosts, stats, mq, burst, vmixPending, nStarted, settled>>

\* variant: pinned comments survive a clear, unpinned
clearKeepsPinned ==
    /\ mq = <<>>
    /\ feed' = LET kept == SelectSeq(feed, LAMBDA c : c.pinned) IN
               [i \in 1..Len(kept) |-> [kept[i] EXCEPT !.pinned = FALSE]]
    /\ stats' = NewStats
    /\ emitted' = <<Event("feed:cleared", <<>>)>>
    /\ UNCHANGED <<modVars, modGhosts, mq, burst, vmixPending, nStarted, settled>>

\* variant: the counters are zeroed one by one, byPlatform is forgotten
clearKeepsPlatforms ==
    /\ mq = <<>>
    /\ feed' = <<>>
    /\ stats' = [NewStats EXCEPT !.byPlatform = stats.byPlatform]
    /\ emitted' = <<Event("feed:cleared", <<>>)>>
    /\ UNCHANGED <<modVars, modGhosts, mq, burst, vmixPending, nStarted, settled>>

\* after the constructor: this._pushTimer = null, no interval set
NoTimer == [pushTimer |-> 0, intervals |-> {}, inits |-> 0, created |-> 0]

\* init() up to `await this.moderator.init()`
initCall ==
    /\ mq = <<>>
    /\ pushing' = [pushing EXCEPT !.inits = @ + 1]
    /\ emitted' = <<>>
    /\ UNCHANGED <<modVars, modGhosts, feed, stats, mq, burst, vmixPending,
                   nStarted, settled>>

\* init() after moderator.init() and vmix.ping() settled: the probe sets
\* aiAvailable, and with pushToVmix a new interval is set on _pushTimer
initSettles(ok) ==
    /\ mq = <<>>
    /\ pushing.inits > 0
    /\ aiAvailable' = ok
    /\ pushing' =
         IF config.pushToVmix
         THEN [pushTimer |-> pushing.created + 1,
               intervals |-> pushing.intervals \cup {pushing.created + 1},
               inits |-> pushing.inits - 1,
               created |-> pushing.created + 1]
         ELSE [pushing EXCEPT !.inits = @ - 1]
    /\ emitted' = <<>>
    /\ UNCHANGED <<config, cache, aiPending, modGhosts, feed, stats, mq, burst,
                   vmixPending, nStarted, settled>>

\* an interval fires: _pushToVmix()
pushToVmix(t) ==
    /\ mq = <<>>
    /\ t \in pushing.intervals
    /\ emitted' = IF feed = <<>> THEN <<>>
                  ELSE <<Event("vmix:push", [count |-> Len(feed)])>>
    /\ UNCHANGED <<modVars, modGhosts, feed, stats, mq, burst, vmixPending,
                   nStarted, settled, pushing>>

\* stop(): clears the interval _pushTimer holds
stop ==
    /\ mq = <<>>
    /\ pushing' = IF pushing.pushTimer # 0
                  THEN [pushing EXCEPT !.intervals = @ \ {pushing.pushTimer},
                                       !.pushTimer = 0]
                  ELSE pushing
    /\ emitted' = <<>>
    /\ UNCHANGED <<modVars, modGhosts, feed, stats, mq, burst, vmixPending,
                   nStarted, settled>>

clear ==
    /\ mq = <<>>
    /\ feed' = <<>>
    /\ stats' = NewStats
    /\ emitted' = <<Event("feed:cleared", <<>>)>>
    /\ UNCHANGED <<modVars, modGhosts, mq, burst, vmixPending, nStarted, settled>>

(***************************************************************************)
(* PlatformManager                                                         *)
(***************************************************************************)
PLATFORMS == {"youtube", "twitch", "tiktok"}

\* a manager call: pc is "run", the await it is suspended at, or "done";
\* child is the call it awaits (for startAll the first of them)
Call(op, name, parent) ==
    [op |-> op, name |-> name, parent |-> parent, inst |-> 0, child |-> 0,
     pc |-> "run", result |-> "pending", outcome |-> "none",
     autoStart |-> FALSE, keys |-> <<>>]

NoCall == [op |-> "none", name |-> "none", result |-> "none"]

\* after the constructor: this._platforms = new Map()
NewManager ==
    [platforms |-> <<>>, instances |-> <<>>, calls |-> <<>>, emitted |-> <<>>,
     uncaught |-> FALSE]

\* PLATFORMS[name] on the object literal: an adapter class, a property every
\* object inherits (new Object(config) has no .on, TypeError), or undefined
ObjectKeys == {"constructor"}
Lookup(name) ==
    IF name \in PLATFORMS THEN name
    ELSE IF name \in ObjectKeys THEN "Object" ELSE "undefined"

PlatformError(name) == [type |-> "platformError", platform |-> name]

\* this._platforms as a Map: entries in insertion order
IndexOf(w, name) ==
    IF \E i \in 1..Len(w.platforms) : w.platforms[i].name = name
    THEN CHOOSE i \in 1..Len(w.platforms) : w.platforms[i].name = name
    ELSE 0
Keys(w) == [i \in 1..Len(w.platforms) |-> w.platforms[i].name]
MapSet(w, name, inst) ==
    IF IndexOf(w, name) > 0
    THEN [w EXCEPT !.platforms[IndexOf(w, name)].inst = inst]
    ELSE [w EXCEPT !.platforms = Append(@, [name |-> name, inst |-> inst])]
MapDelete(w, name) ==
    [w EXCEPT !.platforms = SelectSeq(@, LAMBDA e : e.name # name)]

PmEmit(w, ev) == [w EXCEPT !.emitted = Append(@, ev)]
Spawn(w, call) == [w EXCEPT !.calls = Append(@, call)]
Done(w, id, result) == [w EXCEPT !.calls[id].pc = "done", !.calls[id].result = result]

\* an adapter instance emits 'error': forwarded under the name it was wired
\* with; with its listeners removed the emitter throws
AdapterEmitsError(w, inst) ==
    IF w.instances[inst].wired
    THEN PmEmit(w, PlatformError(w.instances[inst].name))
    ELSE [w EXCEPT !.uncaught = TRUE]

\* the platform field the adapter class writes in _normalize
NormalizedPlatform(cls) ==
    CASE cls = "youtube" -> "youtube"
      [] cls = "twitch" -> "twitch"
      [] cls = "tiktok" -> "tiktok"

\* variant: the debug listener forwards the message without its [name] prefix
ForwardedUntagged(name, type) ==
    CASE type = "comment" -> [type |-> "comment", platform |-> NormalizedPlatform(name)]
      [] type = "error" -> PlatformError(name)
      [] type = "debug" -> [type |-> "debug", platform |-> "undefined"]

\* what the listeners addPlatform attached emit for an adapter event
Forwarded(name, type) ==
    CASE type = "comment" -> [type |-> "comment", platform |-> NormalizedPlatform(name)]
      [] type = "error" -> PlatformError(name)
      [] type = "debug" -> [type |-> "debug", platform |-> name]

\* an adapter instance emits an event: its listeners forward it; without
\* listeners a comment or debug event is dropped and 'error' throws
AdapterEmitsEvent(w, inst, type) ==
    IF w.instances[inst].wired
    THEN PmEmit(w, Forwarded(w.instances[inst].name, type))
    ELSE IF type = "error" THEN [w EXCEPT !.uncaught = TRUE] ELSE w

\* variant: an unknown name is registered without an adapter behind it
addPlatformCallUnchecked(w, name, autoStart) ==
    LET id == Len(w.calls) + 1
        call == [Call("addPlatform", name, 0) EXCEPT !.autoStart = autoStart]
    IN IF Lookup(name) = "undefined"
       THEN Spawn(w, [call EXCEPT !.pc = "done", !.result = "rejected"])
       ELSE IF IndexOf(w, name) > 0
       THEN Spawn(w, [call EXCEPT !.pc = "done", !.result = "rejected"])
       ELSE Done(MapSet(Spawn(w, call), name, 0), id, "rejected")

\* variant: a failed start is swallowed without an event
startSettledSilent(w, id, outcome) ==
    LET c == w.calls[id]
        w1 == CASE outcome = "ok" -> [w EXCEPT !.instances[c.inst].running = TRUE]
                [] outcome = "throw" -> w
                [] outcome = "errorEvent" -> AdapterEmitsError(w, c.inst)
    IN [Done(w1, id, "fulfilled") EXCEPT !.calls[id].outcome = outcome]

\* startPlatform(name) up to `await entry.instance.start()`
startPlatformCall(w, name, parent) ==
    LET e == IndexOf(w, name) IN
    IF e = 0
    THEN Spawn(w, [Call("startPlatform", name, parent) EXCEPT
                     !.pc = "done", !.result = "rejected"])
    ELSE Spawn(w, [Call("startPlatform", name, parent) EXCEPT
                     !.pc = "awaitStart", !.inst = w.platforms[e].inst])

\* startPlatform after instance.start() settled: "ok" (the adapter runs),
\* "throw" (start() rejected), "errorEvent" (start() emitted 'error' and
\* returned, as TikTokChat does when it cannot connect)
startSettled(w, id, outcome) ==
    LET c == w.calls[id]
        w1 == CASE outcome = "ok" -> [w EXCEPT !.instances[c.inst].running = TRUE]
                [] outcome = "throw" -> PmEmit(w, PlatformError(c.name))
                [] outcome = "errorEvent" -> AdapterEmitsError(w, c.inst)
    IN [Done(w1, id, "fulfilled") EXCEPT !.calls[id].outcome = outcome]

\* stopPlatform(name) up to `await entry.instance.stop()`; YouTubeChat.stop()
\* is synchronous
stopPlatformCall(w, name, parent) ==
    LET e == IndexOf(w, name) IN
    IF e = 0
    THEN Spawn(w, [Call("stopPlatform", name, parent) EXCEPT
                     !.pc = "done", !.result = "fulfilled"])
    ELSE LET i == w.platforms[e].inst
             w1 == IF name = "youtube"
                   THEN [w EXCEPT !.instances[i].running = FALSE] ELSE w
         IN Spawn(w1, [Call("stopPlatform", name, parent) EXCEPT
                         !.pc = "awaitStop", !.inst = i])

\* variant: stopPlatform without its try/catch
stopSettledRethrow(w, id, outcome) ==
    LET c == w.calls[id] IN
    IF outcome = "ok"
    THEN [Done([w EXCEPT !.instances[c.inst].running = FALSE], id, "fulfilled")
            EXCEPT !.calls[id].outcome = outcome]
    ELSE [Done(w, id, "rejected") EXCEPT !.calls[id].outcome = outcome]

\* stopPlatform after instance.stop() settled
stopSettled(w, id, outcome) ==
    LET c == w.calls[id]
        w1 == IF outcome = "ok"
              THEN [w EXCEPT !.instances[c.inst].running = FALSE]
              ELSE PmEmit(w, PlatformError(c.name))
    IN [Done(w1, id, "fulfilled") EXCEPT !.calls[id].outcome = outcome]

\* removePlatform(name) up to `await this.stopPlatform(name)`
removePlatformCall(w, name, parent) ==
    LET id == Len(w.calls) + 1 IN
    stopPlatformCall(
        Spawn(w, [Call("removePlatform", name, parent) EXCEPT
                    !.pc = "awaitStopPlatform", !.child = id + 1]),
        name, id)

\* variant: the entry is deleted, the listeners stay on the instance
removeResumedKeepsListeners(w, id) ==
    Done(MapDelete(w, w.calls[id].name), id, "fulfilled")

\* removePlatform after stopPlatform returned
removeResumed(w, id) ==
    LET name == w.calls[id].name
        e == IndexOf(w, name)
        w1 == IF e > 0
              THEN [w EXCEPT !.instances[w.platforms[e].inst].wired = FALSE]
              ELSE w
    IN Done(MapDelete(w1, name), id, "fulfilled")

\* addPlatform from `new Cls(config)` to its return or `await startPlatform`
addConstruct(w, id) ==
    LET name == w.calls[id].name
        inst == Len(w.instances) + 1
        w1 == [w EXCEPT !.instances =
                 Append(@, [name |-> name, wired |-> TRUE, running |-> FALSE])]
        w2 == MapSet(w1, name, inst)
    IN IF w.calls[id].autoStart
       THEN startPlatformCall(
                [w2 EXCEPT !.calls[id].pc = "awaitStartPlatform",
                           !.calls[id].inst = inst,
                           !.calls[id].child = Len(w.calls) + 1],
                name, id)
       ELSE [Done(w2, id, "fulfilled") EXCEPT !.calls[id].inst = inst]

\* variant: a registered name is overwritten without removing its instance
addPlatformCallNoRemove(w, name, autoStart) ==
    LET id == Len(w.calls) + 1
        call == [Call("addPlatform", name, 0) EXCEPT !.autoStart = autoStart]
    IN IF Lookup(name) \notin PLATFORMS
       THEN Spawn(w, [call EXCEPT !.pc = "done", !.result = "rejected"])
       ELSE addConstruct(Spawn(w, call), id)

\* addPlatform(name, config, autoStart) up to its first await or its return
addPlatformCall(w, name, autoStart) ==
    LET id == Len(w.calls) + 1
        call == [Call("addPlatform", name, 0) EXCEPT !.autoStart = autoStart]
    IN IF Lookup(name) \notin PLATFORMS
       THEN Spawn(w, [call EXCEPT !.pc = "done", !.result = "rejected"])
       ELSE IF IndexOf(w, name) > 0
       THEN removePlatformCall(
                Spawn(w, [call EXCEPT !.pc = "awaitRemovePlatform",
                                      !.child = id + 1]),
                name, id)
       ELSE addConstruct(Spawn(w, call), id)

\* addPlatform after an await
addResumed(w, id) ==
    IF w.calls[id].pc = "awaitRemovePlatform"
    THEN addConstruct(w, id)
    ELSE Done(w, id, w.calls[w.calls[id].child].result)

\* [...keys].map(name => this.startPlatform(name)), from the i-th key on
RECURSIVE startEach(_, _, _, _)
startEach(w, keys, i, parent) ==
    IF i > Len(keys) THEN w
    ELSE startEach(startPlatformCall(w, keys[i], parent), keys, i + 1, parent)

\* startAll() up to `await Promise.allSettled(...)`
startAllCall(w) ==
    LET id == Len(w.calls) + 1 IN
    startEach(
        Spawn(w, [Call("startAll", "all", 0) EXCEPT
                    !.pc = "awaitAllSettled", !.keys = Keys(w), !.child = id + 1]),
        Keys(w), 1, id)

\* for (const [i, r] of results.entries()), from the i-th result on
RECURSIVE reportRejected(_, _, _)
reportRejected(w, id, i) ==
    IF i > Len(w.calls[id].keys) THEN w
    ELSE reportRejected(
             IF w.calls[w.calls[id].child + i - 1].result = "rejected"
             THEN PmEmit(w, PlatformError(IF i <= Len(Keys(w)) THEN Keys(w)[i]
                                          ELSE "undefined"))
             ELSE w,
             id, i + 1)

\* startAll after allSettled
startAllResumed(w, id) == Done(reportRejected(w, id, 1), id, "fulfilled")

\* the calls call id awaits have all settled
ChildrenDone(w, id) ==
    LET c == w.calls[id]
        n == IF c.op = "startAll" THEN Len(c.keys) ELSE 1
    IN \A k \in c.child..(c.child + n - 1) : w.calls[k].pc = "done"

\* no manager call is in flight
Quiescent == pm.calls = <<>>

\* a caller invokes the manager; the events noted so far are forgotten
Invoke(w) ==
    /\ pm' = w
    /\ UNCHANGED pmLast

addPlatform(name, autoStart) ==
    Invoke(addPlatformCall([pm EXCEPT !.emitted = <<>>], name, autoStart))
startPlatform(name) ==
    Invoke(startPlatformCall([pm EXCEPT !.emitted = <<>>], name, 0))
stopPlatform(name) ==
    Invoke(stopPlatformCall([pm EXCEPT !.emitted = <<>>], name, 0))
removePlatform(name) ==
    Invoke(removePlatformCall([pm EXCEPT !.emitted = <<>>], name, 0))
startAll ==
    Invoke(startAllCall([pm EXCEPT !.emitted = <<>>]))

\* an adapter's start() settles
StartSettles(id, outcome) ==
    /\ pm.calls[id].op = "startPlatform" /\ pm.calls[id].pc = "awaitStart"
    /\ outcome = "errorEvent" => pm.calls[id].name = "tiktok"
    /\ pm' = startSettled(pm, id, outcome)
    /\ UNCHANGED pmLast

\* an adapter's stop() settles
StopSettles(id, outcome) ==
    /\ pm.calls[id].op = "stopPlatform" /\ pm.calls[id].pc = "awaitStop"
    /\ outcome = "throw" => pm.calls[id].name # "youtube"
    /\ pm' = stopSettled(pm, id, outcome)
    /\ UNCHANGED pmLast

\* a suspended manager call resumes once what it awaits has settled
Resume(id) ==
    /\ pm.calls[id].op \in {"removePlatform", "addPlatform", "startAll"}
    /\ pm.calls[id].pc \notin {"run", "done"}
    /\ ChildrenDone(pm, id)
    /\ pm' = CASE pm.calls[id].op = "removePlatform" -> removeResumed(pm, id)
               [] pm.calls[id].op = "addPlatform" -> addResumed(pm, id)
               [] pm.calls[id].op = "startAll" -> startAllResumed(pm, id)
    /\ UNCHANGED pmLast

\* an adapter whose start() was invoked emits an event
AdapterEmits(inst, type) ==
    /\ inst \in live
    /\ pm' = AdapterEmitsEvent(pm, inst, type)
    /\ UNCHANGED pmLast

\* the instances whose start() the step invoked
Started(w) ==
    {w.calls[k].inst : k \in {j \in 1..Len(w.calls) : w.calls[j].pc = "awaitStart"}}

\* the caller's await of the call returns
Return ==
    /\ pm.calls # <<>>
    /\ pm.calls[1].pc = "done"
    /\ pmLast' = [op |-> pm.calls[1].op, name |-> pm.calls[1].name,
                  result |-> pm.calls[1].result]
    /\ pm' = [pm EXCEPT !.calls = <<>>]

(***************************************************************************)
(* An event listener: it logs the comment:approved and comment:pinned      *)
(* events it receives and forgets them on feed:cleared                     *)
(***************************************************************************)
RECURSIVE LogOf(_)
LogOf(events) ==
    IF events = <<>> THEN <<>>
    ELSE (CASE Head(events).type = "comment:approved" ->
                  <<[op |-> "approved", id |-> Head(events).payload.id]>>
            [] Head(events).type = "comment:pinned" ->
                  <<[op |-> "pin", id |-> Head(events).payload.id]>>
            [] OTHER -> <<>>) \o LogOf(Tail(events))

Observe ==
    history' = IF \E i \in 1..Len(emitted') : emitted'[i].type = "feed:cleared"
               THEN <<>>
               ELSE history \o LogOf(emitted')

(***************************************************************************)
(* A caller of getFeed                                                     *)
(***************************************************************************)
\* getFeed(limit) returns this.feed.slice(0, limit): a new array holding the
\* buffer's own item objects. Each returned item is kept with the index (from
\* 1) its object has in the buffer, 0 once the buffer has dropped it.
Slice(limit) == [i \in 1..Len(getFeed(limit)) |-> [item |-> feed[i], at |-> i]]

ItemsOf(list) == [i \in 1..Len(list) |-> list[i].item]

\* where the object at index `at` is after a step that emitted `events`
MovedTo(at, events) ==
    IF at = 0 \/ events = <<>> THEN at
    ELSE CASE events[1].type = "feed:cleared" -> 0
           [] events[1].type = "comment:approved" ->
                IF at + 1 <= Len(feed') THEN at + 1 ELSE 0
           [] events[1].type = "comment:pinned" ->
                LET idx == FindIndex(feed, events[1].payload.id) IN
                IF at = idx THEN 1 ELSE IF at < idx THEN at + 1 ELSE at
           [] OTHER -> at

\* the returned items are the buffer's objects: what the manager writes to an
\* object it still holds shows in the caller's list
Aliased ==
    snapshot' = [i \in 1..Len(snapshot) |->
                   LET at == MovedTo(snapshot[i].at, emitted') IN
                   [item |-> IF at > 0 THEN feed'[at] ELSE snapshot[i].item,
                    at |-> at]]

\* a caller takes the feed
GetFeedCall(limit) ==
    /\ mq = <<>>
    /\ snapshot' = Slice(limit)
    /\ emitted' = <<>>
    /\ UNCHANGED <<modVars, modGhosts, feed, stats, mq, burst, vmixPending,
                   nStarted, settled>>

\* the caller sets highlighted on an item of the list it was given
CallerEdits(i) ==
    /\ mq = <<>>
    /\ i \in 1..Len(snapshot)
    /\ ~snapshot[i].item.highlighted
    /\ snapshot' = [snapshot EXCEPT ![i].item.highlighted = TRUE]
    /\ feed' = IF snapshot[i].at > 0
               THEN [feed EXCEPT ![snapshot[i].at].highlighted = TRUE]
               ELSE feed
    /\ emitted' = <<>>
    /\ UNCHANGED <<modVars, modGhosts, stats, mq, burst, vmixPending,
                   nStarted, settled>>

PinsIn(h) == Cardinality({i \in 1..Len(h) : h[i].op = "pin"})
ApprovedIn(h) == SelectSeq(h, LAMBDA e : e.op = "approved")

(***************************************************************************)
(* YouTubeChat                                                             *)
(***************************************************************************)
\* after the constructor. ops are the requests and timeouts pending, each
\* with the number it was issued under; timer is this._timer (0 for null);
\* stopped and old note whether stop() was the last call made and what was
\* pending when it was made.
NewYouTubeChat ==
    [running |-> FALSE, timer |-> 0, ops |-> {}, issued |-> 0, starts |-> 0,
     stopped |-> FALSE, old |-> {}, out |-> <<>>]

Issue(y, kind) ==
    [y EXCEPT !.issued = @ + 1,
              !.ops = @ \cup {[id |-> y.issued + 1, kind |-> kind]}]

\* _poll() up to `await this._fetch(url)`
ytPoll(y) == Issue(y, "poll")

\* start() up to `await this._resolveLiveChatId()`
ytStart(y) ==
    [Issue(y, "resolve") EXCEPT !.starts = @ + 1, !.stopped = FALSE,
                                !.old = {}, !.out = <<>>]

\* start() after the await: the id was resolved (or configured), or
\* _resolveLiveChatId threw and start() rejects
ytResolved(y, op, ok) ==
    LET y1 == [y EXCEPT !.ops = @ \ {op}] IN
    IF ok
    THEN ytPoll([y1 EXCEPT !.running = TRUE, !.out = <<"debug">>])
    ELSE [y1 EXCEPT !.out = <<>>]

\* if (this._running) this._timer = setTimeout(() => this._poll(), ...)
ytReschedule(y) ==
    IF y.running THEN [Issue(y, "timer") EXCEPT !.timer = y.issued + 1] ELSE y

\* _poll() after the await: the reply holds items, holds none, or the
\* request failed
ytPollSettled(y, op, outcome) ==
    LET y1 == [y EXCEPT !.ops = @ \ {op}] IN
    CASE outcome = "items" -> ytReschedule([y1 EXCEPT !.out = <<"comment">>])
      [] outcome = "empty" -> ytReschedule([y1 EXCEPT !.out = <<>>])
      [] outcome = "error" -> ytReschedule([y1 EXCEPT !.out = <<"error">>])

\* a timeout fires: () => this._poll()
ytTimerFired(y, op) == ytPoll([y EXCEPT !.ops = @ \ {op}, !.out = <<>>])

\* stop()
ytStop(y) ==
    LET ops == {o \in y.ops : ~(o.kind = "timer" /\ o.id = y.timer)} IN
    [y EXCEPT !.running = FALSE, !.timer = 0, !.ops = ops, !.out = <<"debug">>,
              !.stopped = TRUE, !.old = ops]

(***************************************************************************)
(* Specifications                                                          *)
(***************************************************************************)
FeedSizes == {1, 2}

Configs ==
    [maxFeedSize : FeedSizes, pushToVmix : BOOLEAN,
     vmixInput : {"null", "Comment Title"}, useAI : BOOLEAN]

InitFeed(configs) ==
    /\ config \in configs
    /\ feed = <<>>
    /\ stats = NewStats
    /\ cache = EmptyMap
    /\ aiAvailable = FALSE
    /\ aiPending = EmptyBag
    /\ mq = <<>>
    /\ burst = FALSE
    /\ vmixPending = EmptyBag
    /\ emitted = <<>>
    /\ nStarted = 0
    /\ settled = [fulfilled |-> 0, rejected |-> 0]
    /\ snapshot = <<>>
    /\ live = {}
    /\ pushing = NoTimer
    /\ yt = NewYouTubeChat
    /\ aiCalls = EmptyMap
    /\ returned = EmptyMap
    /\ modOut = NoResult
    /\ history = <<>>
    /\ pm = NewManager
    /\ pmLast = NoCall

InitRulesIdle ==
    /\ ruleIn = cHello
    /\ ruleOut = NoResult

\* The feed manager as configured by default (no vMix title input), with the
\* classifier enabled; sources deliver comments at any time.
Init == InitFeed({c \in Configs : c.useAI /\ c.pushToVmix /\ c.vmixInput = "null"})
        /\ InitRulesIdle

\* a step of the program nobody listens to
Quiet(A) ==
    A /\ UNCHANGED <<ruleVars, history, pmVars, callerVars, adapterVars, timerVars, pollerVars>>
\* a step of the program with the listener attached
Heard(A) ==
    A /\ Observe /\ UNCHANGED <<ruleVars, pmVars, callerVars, adapterVars, timerVars, pollerVars>>

Next ==
    \/ Quiet(\E c \in Comments : AddCommentStart(c, MaxCalls))
    \/ Quiet(AddCommentResume)
    \/ Quiet(\E c \in Comments : \E r \in AIResponses : AIReturn(c, r))
    \/ Quiet(\E id \in Ids : highlight(id))
    \/ Quiet(\E id \in Ids : pin(id))
    \/ Quiet(clear)
    \/ Quiet(\E ok \in BOOLEAN : moderatorInit(ok))

Spec == Init /\ [][Next]_vars

\* The feed manager with the classifier disabled, fed one comment at a time
\* (each addComment call completes before the next one starts, and no comment
\* that was approved is delivered again), with a listener logging its events.
InitSeq ==
    InitFeed({c \in Configs : ~c.useAI /\ c.pushToVmix /\ c.vmixInput = "null"})
    /\ InitRulesIdle

NextSeq ==
    \/ Heard(\E c \in SeqComments :
               /\ Idle
               /\ \A i \in 1..Len(history) : history[i].id # c.id
               /\ AddCommentStart(c, MaxSeqCalls))
    \/ Heard(AddCommentResume)
    \/ Heard(\E id \in Ids :
               (FindIndex(feed, id) > 0 => PinsIn(history) < MaxPins) /\ pin(id))
    \/ Heard(clear)

SpecSeq == InitSeq /\ [][NextSeq]_vars

\* The dashboard's controls: comments come in, the operator pins and clears.
PinComments == {cHello, cQuestion, cThanks}
MaxPinCalls == 3
PinFeedSize == 3

InitPin ==
    InitFeed({[maxFeedSize |-> PinFeedSize, pushToVmix |-> FALSE,
               vmixInput |-> "null", useAI |-> FALSE]})
    /\ InitRulesIdle

NextPin ==
    \/ Quiet(\E c \in PinComments : AddCommentStart(c, MaxPinCalls))
    \/ Quiet(AddCommentResume)
    \/ Quiet(\E id \in Ids : pin(id))
    \/ Quiet(clear)

SpecPin == InitPin /\ [][NextPin]_vars

\* The feed manager with a caller that keeps the list getFeed() gave it.
MaxViewCalls == 3
Limits == {1, 50}

\* a step of the manager while the caller holds a list
Viewed(A) == A /\ Aliased /\ UNCHANGED <<ruleVars, history, pmVars, adapterVars, timerVars, pollerVars>>

InitView ==
    InitFeed({c \in Configs : ~c.useAI /\ ~c.pushToVmix /\ c.vmixInput = "null"
                              /\ c.maxFeedSize = 2})
    /\ InitRulesIdle

NextView ==
    \/ Viewed(\E c \in PinComments : AddCommentStart(c, MaxViewCalls))
    \/ Viewed(AddCommentResume)
    \/ Viewed(\E id \in Ids : highlight(id))
    \/ Viewed(\E id \in Ids : pin(id))
    \/ Viewed(clear)
    \/ \E limit \in Limits :
         GetFeedCall(limit) /\ UNCHANGED <<ruleVars, history, pmVars, adapterVars, timerVars, pollerVars>>
    \/ \E i \in 1..2 : CallerEdits(i) /\ UNCHANGED <<ruleVars, history, pmVars, adapterVars, timerVars, pollerVars>>

SpecView == InitView /\ [][NextView]_vars

\* The feed manager with a vMix title input and the classifier enabled.
InitSink ==
    InitFeed({c \in Configs : c.useAI /\ c.vmixInput # "null" /\ c.maxFeedSize = 2})
    /\ InitRulesIdle

NextSink ==
    \/ Quiet(\E c \in SinkComments : AddCommentStart(c, MaxSinkCalls))
    \/ Quiet(AddCommentResume)
    \/ Quiet(\E c \in SinkComments : \E r \in AIResponses : AIReturn(c, r))
    \/ Quiet(\E p \in BagToSet(vmixPending) : \E ok \in BOOLEAN : VmixReply(p, ok))
    \/ Quiet(\E id \in Ids : highlight(id))
    \/ Quiet(\E ok \in BOOLEAN : moderatorInit(ok))

SpecSink == InitSink /\ [][NextSink]_vars

\* The moderator alone, called directly.
InitModerator ==
    InitFeed({c \in Configs : c.pushToVmix /\ c.vmixInput = "null" /\ c.maxFeedSize = 2})
    /\ InitRulesIdle

NextModerator ==
    \/ Quiet(\E c \in ModComments : ModerateCall(c))
    \/ Quiet(\E c \in ModComments : \E r \in AIResponses : ModerateReturn(c, r))
    \/ Quiet(clearCache)
    \/ Quiet(\E ok \in BOOLEAN : moderatorInit(ok))

SpecModerator == InitModerator /\ [][NextModerator]_vars

\* pieces the messages handed to ruleCheck are put together from
Chunks == {
    <<"s","p","a","m">>,
    <<"B","u","y"," ","N","o","w">>,
    <<" ">>,
    <<"!">>,
    <<"?">>,
    <<"f","i","r","s","t">>,
    <<" ","f","i","r","s","t","!">>,
    <<"a","a","a","a","a","a","a","a","a","a">>,
    <<"a">>,
    <<"h","t","t","p",":","/","/","x"," ">>,
    <<"h","t","t","p","s",":","/","/","y">>,
    <<"h","o","w"," ","d","o"," ","y","o","u"," ","m","i","x">>,
    <<"w","h","a","t"," ","i","s"," ","t","h","e"," ","N","D","I">> }

\* the messages of the demo feed that the rules block or highlight
ScenarioMessages == {
    <<"B","U","Y"," ","F","O","L","L","O","W","E","R","S"," ","N","O","W"," ","C","L","I","C","K"," ","H","E","R","E">>,
    <<"f","i","r","s","t","!","!","!","!","!","!","!","!","!","!","!","!","!","!","!","!">>,
    <<"W","h","a","t"," ","s","w","i","t","c","h","e","r"," ","a","r","e"," ","y","o","u"," ","u","s","i","n","g","?">> }

\* bound of the rule-stage inputs: pieces per message
MaxChunks == 2

RECURSIVE Flatten(_)
Flatten(ss) == IF ss = <<>> THEN <<>> ELSE Head(ss) \o Flatten(Tail(ss))

Messages ==
    {Flatten(ss) : ss \in UNION {[1..k -> Chunks] : k \in 0..MaxChunks}}
    \cup ScenarioMessages \cup {Undefined}

\* The rule stage alone, on one message.
InitRules ==
    /\ ruleIn \in {Comment("r1", "youtube", Ann, m) : m \in Messages}
    /\ ruleOut = NoResult
    /\ InitFeed({c \in Configs : c.useAI /\ c.pushToVmix /\ c.vmixInput = "null"
                                 /\ c.maxFeedSize = 2})

RuleCheckCall ==
    /\ ruleOut = NoResult
    /\ ruleOut' = ruleCheck(ruleIn)
    /\ UNCHANGED <<ruleIn, modVars, modGhosts, feedVars, nStarted, settled, history, pmVars,
                   callerVars, adapterVars, timerVars, pollerVars>>

NextRules == RuleCheckCall

SpecRules == InitRules /\ [][NextRules]_vars

\* The platform manager alone; its caller awaits each call before the next.
MaxInstances == 3
PlatformNames == PLATFORMS \cup {"kick"}
StartOutcomes == {"ok", "throw", "errorEvent"}
StopOutcomes == {"ok", "throw"}

InitPlatforms ==
    InitFeed({c \in Configs : c.useAI /\ c.pushToVmix /\ c.vmixInput = "null"
                              /\ c.maxFeedSize = 2})
    /\ InitRulesIdle

Managing(A) ==
    A /\ UNCHANGED <<ruleVars, modVars, modGhosts, feedVars, nStarted, settled, history,
                     callerVars, adapterVars, timerVars, pollerVars>>

NextPlatforms ==
    \/ Managing(\E name \in PlatformNames : \E autoStart \in BOOLEAN :
                  /\ Quiescent
                  /\ Len(pm.instances) < MaxInstances
                  /\ addPlatform(name, autoStart))
    \/ Managing(\E name \in PlatformNames : Quiescent /\ startPlatform(name))
    \/ Managing(\E name \in PlatformNames : Quiescent /\ stopPlatform(name))
    \/ Managing(\E name \in PlatformNames : Quiescent /\ removePlatform(name))
    \/ Managing(Quiescent /\ startAll)
    \/ Managing(\E id \in 1..Len(pm.calls) : \E o \in StartOutcomes :
                  StartSettles(id, o))
    \/ Managing(\E id \in 1..Len(pm.calls) : \E o \in StopOutcomes :
                  StopSettles(id, o))
    \/ Managing(\E id \in 1..Len(pm.calls) : Resume(id))
    \/ Managing(Return)

SpecPlatforms == InitPlatforms /\ [][NextPlatforms]_vars

\* The platform manager with adapters that emit events while they live; its
\* caller awaits each call before the next.
AdapterNames == {"youtube", "twitch"}
EventTypes == {"comment", "error", "debug"}
MaxAdapters == 2
MaxForwarded == 1

\* a step while the process lives: an uncaught exception ends it
Living(A) ==
    /\ ~pm.uncaught
    /\ A
    /\ live' = live \cup Started(pm')
    /\ UNCHANGED <<ruleVars, modVars, modGhosts, feedVars, nStarted, settled, history,
                   callerVars, timerVars, pollerVars>>

NextAdapters ==
    \/ Living(\E name \in AdapterNames : \E autoStart \in BOOLEAN :
                /\ Quiescent
                /\ Len(pm.instances) < MaxAdapters
                /\ addPlatform(name, autoStart))
    \/ Living(\E name \in AdapterNames : Quiescent /\ startPlatform(name))
    \/ Living(\E name \in AdapterNames : Quiescent /\ stopPlatform(name))
    \/ Living(\E name \in AdapterNames : Quiescent /\ removePlatform(name))
    \/ Living(\E id \in 1..Len(pm.calls) : \E o \in StopOutcomes : StartSettles(id, o))
    \/ Living(\E id \in 1..Len(pm.calls) : \E o \in StopOutcomes : StopSettles(id, o))
    \/ Living(\E id \in 1..Len(pm.calls) : Resume(id))
    \/ Living(Return)
    \/ Living(\E inst \in live : \E type \in EventTypes :
                /\ Len(pm.emitted) < MaxForwarded
                /\ AdapterEmits(inst, type))

SpecAdapters == InitPlatforms /\ [][NextAdapters]_vars

\* The platform manager asked to register names of every kind.
RegistryNames == {"youtube", "kick", "constructor"}

NextRegistry ==
    \/ Managing(\E name \in RegistryNames : \E autoStart \in BOOLEAN :
                  /\ Quiescent
                  /\ Len(pm.instances) < MaxAdapters
                  /\ addPlatform(name, autoStart))
    \/ Managing(\E name \in RegistryNames : Quiescent /\ removePlatform(name))
    \/ Managing(\E id \in 1..Len(pm.calls) : \E o \in StopOutcomes : StartSettles(id, o))
    \/ Managing(\E id \in 1..Len(pm.calls) : \E o \in StopOutcomes : StopSettles(id, o))
    \/ Managing(\E id \in 1..Len(pm.calls) : Resume(id))
    \/ Managing(Return)

SpecRegistry == InitPlatforms /\ [][NextRegistry]_vars

\* The feed manager initialised and stopped by its owner while comments
\* arrive and the intervals fire.
MaxInits == 2
MaxTimerCalls == 2

\* a step of the feed manager's life cycle
Timed(A) ==
    A /\ UNCHANGED <<ruleVars, history, pmVars, callerVars, adapterVars, pollerVars>>

InitTimer ==
    InitFeed({c \in Configs : ~c.useAI /\ c.vmixInput = "null" /\ c.maxFeedSize = 2})
    /\ InitRulesIdle

NextTimer ==
    \/ Timed(\E c \in {cHello} : AddCommentStart(c, MaxTimerCalls) /\ UNCHANGED pushing)
    \/ Timed(AddCommentResume /\ UNCHANGED pushing)
    \/ Timed(clear /\ UNCHANGED pushing)
    \/ Timed(pushing.inits + pushing.created < MaxInits /\ initCall)
    \/ Timed(\E ok \in BOOLEAN : initSettles(ok))
    \/ Timed(\E t \in 1..MaxInits : pushToVmix(t))
    \/ Timed(stop)

SpecTimer == InitTimer /\ [][NextTimer]_vars

\* The moderator called directly on a comment the rules highlight and on
\* comments they block, with every classifier behaviour.
ClassifierComments == {cQuestion, cSpam, cNoMessage}
MaxClassifierCalls == 2

NextClassifier ==
    \/ Quiet(\E c \in ClassifierComments :
               nStarted < MaxClassifierCalls /\ ModerateCall(c))
    \/ Quiet(\E c \in ClassifierComments : \E r \in AIResponses : ModerateReturn(c, r))
    \/ Quiet(clearCache)
    \/ Quiet(\E ok \in BOOLEAN : moderatorInit(ok))

SpecClassifier == InitModerator /\ [][NextClassifier]_vars

(***************************************************************************)
(* Properties                                                              *)
(***************************************************************************)
IdsOf(buf) == [i \in 1..Len(buf) |-> buf[i].id]
Reverse(q) == [i \in 1..Len(q) |-> q[Len(q) + 1 - i]]
LastK(q, k) == SubSeq(q, Len(q) - k + 1, Len(q))
Min(a, b) == IF a < b THEN a ELSE b
TooShort == Result("false", "false", "too short")
\* the step just taken resumed the oldest queued addComment continuation
Resumed == mq # <<>> /\ mq' = Tail(mq)

\* C1: the buffer never holds more than maxFeedSize items.
C1_BufferBounded == Len(feed) <= config.maxFeedSize

\* more comments were approved than the buffer holds, and it is full
C1_Witness == stats.approved > config.maxFeedSize /\ Len(feed) = config.maxFeedSize

\* C2: when every addComment call has completed and the counters were not
\* reset since the first call, total = approved + blocked.
C2_StatsAddUp ==
    (Idle /\ stats.total = nStarted) => stats.total = stats.approved + stats.blocked

\* two calls completed, one each way, one of them on a classifier reply
\* without an allow field
C2_Witness ==
    /\ Idle /\ stats.total = nStarted
    /\ stats.approved = 1 /\ stats.blocked = 1
    /\ \E k \in DOMAIN cache : cache[k].allow = "undefined"

\* C3: between two clearCache calls the classifier is invoked at most once
\* for a given (author, message), overlapping moderate calls included.
C3_ClassifierAtMostOnce == \A k \in DOMAIN aiCalls : aiCalls[k] <= 1

\* C4: a moderate call that starts after a call with the same (author,
\* message) has returned (no clearCache in between) does not run the
\* classifier and returns exactly what every earlier call returned.
C4_LaterCallReturnsEarlierResult ==
    [][\A c \in ModComments :
         (ModerateCall(c) /\ SetOf(returned, cacheKey(c)) # {})
         => /\ moderatePath(c) = "hit"
            /\ SetOf(returned, cacheKey(c)) = {modOut'}]_vars

\* C6: with no pin so far, the buffer read through getFeed is the last
\* min(n, maxFeedSize) of the n distinct comments approved one after another
\* since it was empty, newest first.
C6_NewestFirstOldestEvicted ==
    PinsIn(history) = 0
    => IdsOf(getFeed(10)) =
         Reverse(LastK(IdsOf(history), Min(Len(history), config.maxFeedSize)))

\* three comments went into a buffer of two
C6_Witness ==
    /\ PinsIn(history) = 0 /\ Len(history) = 3 /\ config.maxFeedSize = 2
    /\ IdsOf(getFeed(10)) = <<history[3].id, history[2].id>>

\* C7: maxFeedSize = 2; c1, c2, c3 approved in order, pin(c2), c4 approved:
\* getFeed(10) is [c2, c4] or [c4, c3].
C7_PinThenAdd ==
    (/\ config.maxFeedSize = 2
     /\ Len(history) = 5
     /\ [i \in 1..5 |-> history[i].op] =
          <<"approved", "approved", "approved", "pin", "approved">>
     /\ history[4].id = history[2].id)
    => IdsOf(getFeed(10)) \in {<<history[2].id, history[5].id>>,
                               <<history[5].id, history[3].id>>}

\* C8: the resumption of an addComment whose verdict is not allowed leaves the
\* buffer and the requests to vMix as they were, adds one to blocked and
\* nothing to approved or total, and emits exactly one event, comment:blocked
\* with the comment and the verdict's reason.
C8_BlockedFrame ==
    [][(Resumed /\ ~Truthy(Head(mq).result.allow))
       => /\ feed' = feed
          /\ vmixPending' = vmixPending
          /\ stats' = [stats EXCEPT !.blocked = @ + 1]
          /\ emitted' = <<Event("comment:blocked",
                                [comment |-> Head(mq).c,
                                 reason |-> Head(mq).result.reason])>>]_vars

\* a comment was just blocked while the buffer holds an item, a request to
\* vMix is in flight and pushing is on
C8_Witness ==
    /\ Len(emitted) = 1 /\ emitted[1].type = "comment:blocked"
    /\ emitted[1].payload.reason = "too short"
    /\ feed # <<>> /\ vmixPending # EmptyBag /\ config.pushToVmix

C10_MissingMessageAllowed ==
    [][(Resumed /\ Head(mq).c.message = Undefined)
       => /\ stats'.approved = stats.approved + 1
          /\ feed' # <<>> /\ feed'[1].id = Head(mq).c.id]_vars

\* C10 amended: for a comment without a message and with nothing cached under
\* its key, moderate() returns and caches the rule verdict 'too short' without
\* asking the classifier; the resumption of an addComment holding that verdict
\* adds one to blocked, emits comment:blocked 'too short' and leaves the
\* buffer as it was.
C10_MissingMessageTooShort ==
    [][/\ \A c \in Comments :
            (/\ c.message = Undefined
             /\ cacheKey(c) \notin DOMAIN cache
             /\ AddCommentStart(c, MaxCalls))
            => /\ mq' = Append(mq, [c |-> c, result |-> TooShort])
               /\ cache' = Put(cache, cacheKey(c), TooShort)
               /\ aiPending' = aiPending
       /\ (Resumed /\ Head(mq).c.message = Undefined /\ Head(mq).result = TooShort)
            => /\ feed' = feed
               /\ stats' = [stats EXCEPT !.blocked = @ + 1]
               /\ emitted' = <<Event("comment:blocked",
                                     [comment |-> Head(mq).c,
                                      reason |-> "too short"])>>]_vars

\* a comment without a message was just blocked as too short while the
\* classifier is enabled and reachable
C10_Witness ==
    /\ emitted = <<Event("comment:blocked",
                         [comment |-> cNoMessage, reason |-> "too short"])>>
    /\ config.useAI /\ aiAvailable /\ stats.blocked = 1

\* the step just taken resumed the startAll call after all its starts settled
StartAllCompleted ==
    /\ pm.calls # <<>> /\ pm.calls[1].op = "startAll" /\ pm.calls[1].pc # "done"
    /\ pm'.calls # <<>> /\ pm'.calls[1].pc = "done"
\* the startPlatform calls of the startAll in flight whose start() threw
Threw == {k \in 2..Len(pm.calls) : pm.calls[k].outcome = "throw"}

\* C5: when startAll completes over two or more registered adapters of which
\* exactly one threw in start() and the others started, it returns without
\* raising, start() was invoked on the registered instance of every name, the
\* others are running, and it emitted exactly one platformError, tagged with
\* the name of the adapter that threw.
C5_FanOutIsolation ==
    [][(/\ StartAllCompleted
        /\ Len(pm.calls[1].keys) >= 2
        /\ Cardinality(Threw) = 1
        /\ \A k \in 2..Len(pm.calls) : pm.calls[k].outcome \in {"ok", "throw"})
       => /\ pm'.calls[1].result = "fulfilled"
          /\ Len(pm.calls) = 1 + Len(pm.calls[1].keys)
          /\ \A k \in 2..Len(pm.calls) :
               /\ pm.calls[k].name = pm.calls[1].keys[k - 1]
               /\ IndexOf(pm', pm.calls[k].name) > 0
               /\ pm.calls[k].inst = pm'.platforms[IndexOf(pm', pm.calls[k].name)].inst
               /\ k \notin Threw => pm'.instances[pm.calls[k].inst].running
          /\ pm'.emitted = <<PlatformError(pm.calls[CHOOSE k \in Threw : TRUE].name)>>
          /\ ~pm'.uncaught]_vars

\* a startAll over three adapters completed: one threw, two started, one event
C5_Witness ==
    /\ Len(pm.calls) = 4 /\ pm.calls[1].op = "startAll" /\ pm.calls[1].pc = "done"
    /\ pm.calls[1].result = "fulfilled"
    /\ Cardinality({k \in 2..4 : pm.calls[k].outcome = "throw"}) = 1
    /\ Cardinality({k \in 2..4 : pm.calls[k].outcome = "ok"}) = 2
    /\ Len(pm.emitted) = 1

\* C11: a moderate call that finds nothing cached and whose rule verdict is
\* not allowed returns that verdict, caches it and does not invoke the
\* classifier, whether the classifier is enabled and reachable or not.
C11_RuleBlockSkipsClassifier ==
    [][\A c \in ClassifierComments :
         (/\ nStarted' = nStarted + 1
          /\ cacheKey(c) \notin DOMAIN cache
          /\ ~Truthy(ruleCheck(c).allow)
          /\ ModerateCall(c))
         => /\ modOut' = ruleCheck(c)
            /\ cache' = Put(cache, cacheKey(c), ruleCheck(c))
            /\ aiCalls' = aiCalls
            /\ aiPending' = aiPending]_vars

\* the rule verdict on the spam comment was returned and cached with the
\* classifier enabled and reachable and never invoked for it
C11_Witness ==
    /\ config.useAI /\ aiAvailable
    /\ modOut = Result("false", "false", "blocked pattern")
    /\ cacheKey(cSpam) \in DOMAIN cache
    /\ cache[cacheKey(cSpam)] = modOut
    /\ cacheKey(cSpam) \notin DOMAIN aiCalls

C13_WellFormedResult ==
    modOut # NoResult
    => /\ modOut.allow \in {"true", "false"}
       /\ modOut.highlight \in {"true", "false"}
       /\ modOut.reason # ReasonUndefined

\* C14: a suspended moderate call that resumes on a reply that cannot be
\* parsed (prose without a JSON object, or a brace-delimited text that is not
\* JSON) returns {allow: true, highlight: false, reason: 'ai parse failed'}.
C14_UnparsableGivesDefault ==
    [][\A c \in ClassifierComments : \A r \in AIResponses :
         (/\ r.kind \in {"text", "badjson"}
          /\ BagIn(c, aiPending)
          /\ aiPending' = aiPending (-) SetToBag({c})
          /\ ModerateReturn(c, r))
         => modOut' = Result("true", "false", "ai parse failed")]_vars

\* sink requests of addComment calls still awaited
AwaitedPushes ==
    LET own == {p \in BagToSet(vmixPending) : p.owner = "addComment"} IN
    IF own = {} THEN 0
    ELSE BagCardinality([p \in own |-> CopiesIn(p, vmixPending)])

\* C15: no addComment promise is ever rejected, whatever the classifier and
\* the sink answer: every started call is either still in progress (awaiting
\* the classifier, its continuation, or a sink request) or was fulfilled.
C15_AddCommentNeverRejects ==
    /\ settled.rejected = 0
    /\ settled.fulfilled + Len(mq) + BagCardinality(aiPending) + AwaitedPushes
         = nStarted

\* two calls returned after the classifier threw for one and a sink request
\* failed or finished for the other
C15_Witness ==
    /\ nStarted = MaxSinkCalls
    /\ settled.fulfilled = MaxSinkCalls
    /\ stats.blocked = 1
    /\ stats.approved = 1
    /\ feed # <<>>
    /\ feed[1].highlighted
    /\ config.pushToVmix
    /\ vmixPending = EmptyBag
    /\ aiPending = EmptyBag

\* C16: highlight(id) with an id that is not buffered changes neither buffer
\* nor stats, emits nothing and asks nothing of the sink; with a buffered id
\* the first item with that id gets highlighted = true and every other item,
\* the order, the length and the stats stay as they were.
C16_HighlightFrame ==
    [][\A id \in Ids :
         highlight(id) =>
           LET idx == FindIndex(feed, id) IN
           /\ stats' = stats
           /\ Len(feed') = Len(feed)
           /\ IF idx = 0
              THEN feed' = feed /\ emitted' = <<>> /\ vmixPending' = vmixPending
              ELSE /\ feed'[idx] = [feed[idx] EXCEPT !.highlighted = TRUE]
                   /\ \A i \in 1..Len(feed) : i # idx => feed'[i] = feed[i]]_vars

\* the first of two buffered items with the same id was highlighted by hand,
\* the second still is not
C16_Witness ==
    /\ Len(feed) = 2
    /\ feed[1].id = feed[2].id
    /\ feed[1].highlighted
    /\ ~feed[2].highlighted
    /\ emitted = <<Event("comment:highlighted", feed[1])>>
    /\ stats.approved = 2

\* the buffer without its item at index i
RemoveAt(buf, i) == SubSeq(buf, 1, i - 1) \o SubSeq(buf, i + 1, Len(buf))

\* C17: pin(id) with a buffered id puts that item at index 0 with pinned =
\* true, keeps the other items in their order, keeps length and stats and
\* emits one comment:pinned event; with an id that is not buffered it changes
\* nothing and emits nothing.
C17_PinFrame ==
    [][\A id \in Ids :
         pin(id) =>
           LET idx == FindIndex(feed, id) IN
           /\ stats' = stats
           /\ Len(feed') = Len(feed)
           /\ IF idx = 0
              THEN feed' = feed /\ emitted' = <<>>
              ELSE /\ feed'[1] = [feed[idx] EXCEPT !.pinned = TRUE]
                   /\ Tail(feed') = RemoveAt(feed, idx)
                   /\ emitted' = <<Event("comment:pinned", feed'[1])>>]_vars

\* the oldest of three buffered comments was pinned: it is the head, the two
\* others follow newest first
C17_Witness ==
    /\ IdsOf(feed) = <<cHello.id, cThanks.id, cQuestion.id>>
    /\ feed[1].pinned /\ ~feed[2].pinned /\ ~feed[3].pinned
    /\ emitted = <<Event("comment:pinned", feed[1])>>
    /\ stats.approved = 3

\* C18: a pinned comment stays at the top regardless of new comments: while a
\* pinned item is at index 0, an addComment that resumes (no pin, no clear)
\* leaves that item at index 0.
C18_PinnedStaysOnTop ==
    [][(/\ feed # <<>>
        /\ feed[1].pinned
        /\ Resumed)
       => /\ feed' # <<>>
          /\ feed'[1] = feed[1]]_vars

\* the only event of the last operation is feed:cleared
JustCleared == emitted = <<Event("feed:cleared", <<>>)>>

\* C19: clear() is idempotent: a clear() called right after a clear() leaves
\* the buffer and the statistics as the first one left them, empty and zero.
C19_ClearIdempotent ==
    [][(JustCleared /\ clear)
       => /\ feed' = feed /\ feed' = <<>>
          /\ stats' = stats /\ stats' = NewStats]_vars

\* cleared after two comments were moderated and approved
C19_Witness ==
    /\ JustCleared
    /\ nStarted = 2
    /\ feed = <<>>
    /\ stats = NewStats
    /\ cache # EmptyMap

\* C20: right after clear() getFeed returns an empty list, getStats reports
\* total, approved, blocked, feedSize and approvalRate 0 with no per-platform
\* counts, and the one event emitted is feed:cleared.
C20_ClearResets ==
    [][clear
       => /\ getFeed(PinFeedSize)' = <<>>
          /\ getStats' = [total |-> 0, approved |-> 0, blocked |-> 0,
                          byPlatform |-> EmptyMap, feedSize |-> 0,
                          approvalRate |-> 0]
          /\ emitted' = <<Event("feed:cleared", <<>>)>>]_vars

\* cleared after every call of the run was made
C20_Witness ==
    /\ JustCleared
    /\ nStarted = MaxPinCalls
    /\ getFeed(PinFeedSize) = <<>>
    /\ getStats.total = 0
    /\ getStats.approvalRate = 0
    /\ DOMAIN getStats.byPlatform = {}

\* C21: a list returned by getFeed is a snapshot by value: no later highlight,
\* pin, addComment or clear changes the list or a field of an item in it, and
\* a caller changing a returned item does not change the buffer.
C21_SnapshotByValue ==
    [][/\ (\E i \in 1..2 : CallerEdits(i)) => feed' = feed
       /\ (/\ ~(\E limit \in Limits : GetFeedCall(limit))
           /\ ~(\E i \in 1..2 : CallerEdits(i)))
          => ItemsOf(snapshot') = ItemsOf(snapshot)]_vars

\* the names in list()
Registered(w) == {w.platforms[i].name : i \in 1..Len(w.platforms)}

\* C22: addPlatform with a name that is no adapter class is rejected and
\* leaves the registry as it was: no instance is constructed, stopped,
\* replaced or started.
C22_UnknownNameRejected ==
    [][\A name \in RegistryNames : \A autoStart \in BOOLEAN :
         (/\ name \notin PLATFORMS
          /\ Quiescent
          /\ addPlatform(name, autoStart))
         => /\ Len(pm'.calls) = 1
            /\ pm'.calls[1].pc = "done"
            /\ pm'.calls[1].result = "rejected"
            /\ pm'.platforms = pm.platforms
            /\ pm'.instances = pm.instances
            /\ pm'.emitted = <<>>]_vars

\* with an adapter registered and running, registering a name every object
\* inherits was rejected
C22_Witness ==
    /\ pmLast = [op |-> "addPlatform", name |-> "constructor", result |-> "rejected"]
    /\ Keys(pm) = <<"youtube">>
    /\ pm.instances[1].running
    /\ pm.instances[1].wired
    /\ Len(pm.instances) = 1

\* the adapter's start() or stop() awaited by call id has just thrown
AdapterThrew(id) ==
    /\ id <= Len(pm.calls) /\ id <= Len(pm'.calls)
    /\ pm.calls[id].pc \in {"awaitStart", "awaitStop"}
    /\ pm'.calls[id].pc = "done"
    /\ pm'.calls[id].outcome = "throw"

\* C23: when the adapter's own start() or stop() throws, startPlatform and
\* stopPlatform complete normally, emit exactly one platformError tagged with
\* the name, and change no adapter's state and nothing in the registry.
C23_AdapterErrorContained ==
    [][\A id \in 1..(MaxAdapters + 2) :
         AdapterThrew(id)
         => /\ pm'.calls[id].result = "fulfilled"
            /\ pm'.emitted = Append(pm.emitted, PlatformError(pm.calls[id].name))
            /\ pm'.instances = pm.instances
            /\ pm'.platforms = pm.platforms
            /\ ~pm'.uncaught]_vars

\* stopPlatform returned normally after the adapter's stop() threw, with one
\* event, while another adapter keeps running
C23_Witness ==
    /\ pmLast = [op |-> "stopPlatform", name |-> "twitch", result |-> "fulfilled"]
    /\ pm.emitted = <<PlatformError("twitch")>>
    /\ Registered(pm) = {"youtube", "twitch"}
    /\ \E i \in 1..Len(pm.instances) :
         pm.instances[i].name = "youtube" /\ pm.instances[i].running
    /\ \E i \in 1..Len(pm.instances) :
         pm.instances[i].name = "twitch" /\ pm.instances[i].running

\* instance inst is the one registered under its name
IsRegistered(w, inst) ==
    \E e \in 1..Len(w.platforms) : w.platforms[e].inst = inst

\* the removePlatform call the caller made has just completed
RemoveCompleted ==
    /\ pm.calls # <<>> /\ pm.calls[1].op = "removePlatform" /\ pm.calls[1].pc # "done"
    /\ pm'.calls # <<>> /\ pm'.calls[1].pc = "done"

\* C24: when removePlatform(name) completes, stop() was invoked on the
\* instance registered under name, whether it returned or threw, and name is
\* not in list(); a comment, error or debug event an instance emits once it
\* is no longer registered adds nothing to what the manager emits.
C24_RemovedIsSilent ==
    [][/\ RemoveCompleted
          => LET name == pm.calls[1].name
                 e == IndexOf(pm, name) IN
             /\ name \notin Registered(pm')
             /\ pm'.calls[1].result = "fulfilled"
             /\ e > 0 => /\ pm.calls[2].op = "stopPlatform"
                         /\ pm.calls[2].inst = pm.platforms[e].inst
                         /\ pm.calls[2].outcome \in StopOutcomes
                         /\ ~pm'.instances[pm.platforms[e].inst].wired
       /\ \A inst \in live : \A type \in EventTypes :
            (~IsRegistered(pm, inst) /\ AdapterEmits(inst, type))
            => pm'.emitted = pm.emitted]_vars

\* removePlatform completed although stop() threw; the instance it removed
\* had been started and is not registered any more
C24_Witness ==
    /\ pmLast = [op |-> "removePlatform", name |-> "twitch", result |-> "fulfilled"]
    /\ pm.emitted = <<PlatformError("twitch")>>
    /\ "twitch" \notin Registered(pm)
    /\ \E inst \in live :
         /\ pm.instances[inst].name = "twitch"
         /\ pm.instances[inst].running
         /\ ~pm.instances[inst].wired

\* an addPlatform call constructs the instance for a name it has just removed
Replaced ==
    /\ pm.calls # <<>> /\ pm.calls[1].op = "addPlatform"
    /\ pm.calls[1].pc = "awaitRemovePlatform"
    /\ pm'.calls[1].pc # "awaitRemovePlatform"

\* instance inst was registered under a name that now has another instance
Superseded(w, inst) ==
    /\ ~IsRegistered(w, inst)
    /\ w.instances[inst].name \in Registered(w)

\* C25: addPlatform for a registered name invokes stop() on the prior
\* instance and removes its listeners before the new instance is constructed
\* and wired; from then on a comment of the new instance is emitted by the
\* manager exactly once and the events of the prior instance not at all.
C25_ReplaceDetachesPrior ==
    [][/\ Replaced
          => /\ pm.calls[3].op = "stopPlatform"
             /\ pm.calls[3].outcome \in StopOutcomes
             /\ ~pm.instances[pm.calls[3].inst].wired
             /\ ~IsRegistered(pm, pm.calls[3].inst)
             /\ Len(pm'.instances) = Len(pm.instances) + 1
             /\ pm'.instances[Len(pm'.instances)].wired
             /\ IsRegistered(pm', Len(pm'.instances))
       /\ \A inst \in live : \A type \in EventTypes :
            AdapterEmits(inst, type)
            => /\ (Superseded(pm, inst) => pm'.emitted = pm.emitted)
               /\ (IsRegistered(pm, inst) /\ type = "comment")
                  => pm'.emitted =
                       Append(pm.emitted,
                              Forwarded(pm.instances[inst].name, "comment"))]_vars

\* the second instance registered as youtube forwarded a comment while the
\* first, replaced, is still known to have been started
C25_Witness ==
    /\ Len(pm.instances) = 2
    /\ pm.instances[1].name = "youtube" /\ pm.instances[2].name = "youtube"
    /\ 1 \in live /\ 2 \in live
    /\ ~pm.instances[1].wired /\ pm.instances[2].wired
    /\ IsRegistered(pm, 2)
    /\ pm.emitted = <<Forwarded("youtube", "comment")>>
    /\ Quiescent

\* the name instance inst is registered under, "none" without an entry
RegisteredAs(w, inst) ==
    IF IsRegistered(w, inst)
    THEN w.platforms[CHOOSE e \in 1..Len(w.platforms) : w.platforms[e].inst = inst].name
    ELSE "none"

\* C26: whatever the manager emits for an adapter's comment, error or debug
\* event carries the name the adapter is registered under.
C26_ForwardedCarriesName ==
    [][\A inst \in live : \A type \in EventTypes :
         (AdapterEmits(inst, type) /\ pm'.emitted # pm.emitted)
         => /\ pm'.emitted = Append(pm.emitted, pm'.emitted[Len(pm'.emitted)])
            /\ pm'.emitted[Len(pm'.emitted)].platform = RegisteredAs(pm, inst)]_vars

\* a debug event of the twitch adapter was forwarded while youtube is
\* registered as well
C26_Witness ==
    /\ pm.emitted = <<[type |-> "debug", platform |-> "twitch"]>>
    /\ Registered(pm) = {"youtube", "twitch"}
    /\ Quiescent
    /\ \E inst \in live : RegisteredAs(pm, inst) = "twitch"

\* C27: an 'error' event of an adapter, whenever it is emitted (running,
\* stopping, removed or replaced), never becomes an uncaught exception.
C27_ErrorNeverUncaught == ~pm.uncaught

\* the step emitted vmix:push
Pushed == \E i \in 1..Len(emitted') : emitted'[i].type = "vmix:push"

\* C28: the periodic push runs only between init and stop and only with
\* pushToVmix: a step emits vmix:push only while _pushTimer holds an interval
\* and pushing is enabled.
C28_PushOnlyWhileStarted ==
    [][Pushed => (pushing.pushTimer # 0 /\ config.pushToVmix)]_vars

\* C29: whether a sink request succeeds or fails has no effect on the feed:
\* the step in which a request settles, either way, leaves buffer, stats,
\* cache and the continuations of addComment as they were and emits no
\* event, and it is possible with both outcomes.
C29_SinkOutcomeIrrelevant ==
    [][\A p \in BagToSet(vmixPending) : \A ok \in BOOLEAN :
         VmixReply(p, ok)
         => /\ feed' = feed
            /\ stats' = stats
            /\ cache' = cache
            /\ mq' = mq
            /\ aiPending' = aiPending
            /\ emitted' = <<>>
            /\ ENABLED VmixReply(p, ~ok)]_vars

\* two highlighted comments are buffered and every sink request for them has
\* settled
C29_Witness ==
    /\ Len(feed) = 2
    /\ feed[1].highlighted /\ feed[2].highlighted
    /\ stats.approved = 2
    /\ vmixPending = EmptyBag
    /\ settled.fulfilled = 2
    /\ emitted = <<>>

\* C30: however the moderation phases of concurrent addComment calls
\* interleave, every call started is in progress or has returned, the step
\* in which a call resumes adds one to exactly one of approved and blocked
\* and, when the verdict allows, puts the comment at the head of the buffer
\* in front of the items that were there, and no other step changes the
\* counters or which comments the buffer holds.
C30_EachCallCountsOnce ==
    [][/\ nStarted' = settled'.fulfilled + Len(mq') + BagCardinality(aiPending')
                        + AwaitedPushes'
       /\ Resumed
          => LET c == Head(mq).c
                 result == Head(mq).result
                 allowed == Truthy(result.allow) IN
             /\ stats'.approved = stats.approved + (IF allowed THEN 1 ELSE 0)
             /\ stats'.blocked = stats.blocked + (IF allowed THEN 0 ELSE 1)
             /\ IF allowed
                THEN /\ feed' # <<>>
                     /\ feed'[1] = Enrich(c, result)
                     /\ Tail(feed') =
                          SubSeq(feed, 1, Min(Len(feed), config.maxFeedSize - 1))
                ELSE feed' = feed
       /\ ~Resumed
          => /\ stats'.approved = stats.approved
             /\ stats'.blocked = stats.blocked
             /\ IdsOf(feed') = IdsOf(feed)]_vars

\* two calls for the same comment were both awaiting the classifier, which
\* allowed one and blocked the other: each was counted once, one is buffered
C30_Witness ==
    /\ CountOf(stats.byPlatform, cQuestion.platform) = 2
    /\ stats.approved = 1
    /\ stats.blocked = 1
    /\ IdsOf(feed) = <<cQuestion.id>>
    /\ aiPending = EmptyBag
    /\ mq = <<>>

\* C31: a step invokes the classifier only when it is enabled and the probe
\* of init() succeeded, and aiAvailable, false after construction, changes
\* only when init() probes: without a successful init() no moderate call
\* invokes the classifier.
C31_ClassifierOnlyWhenProbed ==
    [][/\ BagCardinality(aiPending') > BagCardinality(aiPending)
          => (config.useAI /\ aiAvailable)
       /\ aiAvailable' # aiAvailable
          => \E ok \in BOOLEAN : moderatorInit(ok)]_vars

\* with the classifier enabled and the probe failed, a comment the rules
\* allow was moderated by the rules alone
C31_Witness ==
    /\ config.useAI
    /\ ~aiAvailable
    /\ modOut = Result("true", "true", "passed rules")
    /\ cacheKey(cQuestion) \in DOMAIN cache
    /\ aiPending = EmptyBag
    /\ cacheKey(cQuestion) \notin DOMAIN aiCalls

(***************************************************************************)
(* Progress of addComment                                                  *)
(***************************************************************************)
\* The feed manager with a vMix title input and the classifier, and a listener
\* that logs the comment:approved and comment:blocked events. The event loop
\* runs every queued continuation and every ollama.chat call settles; nothing
\* is assumed of the sink.
MaxLiveCalls == 2

RECURSIVE DecisionsOf(_)
DecisionsOf(events) ==
    IF events = <<>> THEN <<>>
    ELSE (CASE Head(events).type = "comment:approved" ->
                  <<[op |-> "approved", id |-> Head(events).payload.id]>>
            [] Head(events).type = "comment:blocked" ->
                  <<[op |-> "blocked", id |-> Head(events).payload.comment.id]>>
            [] OTHER -> <<>>) \o DecisionsOf(Tail(events))

Logged(A) ==
    /\ A
    /\ history' = history \o DecisionsOf(emitted')
    /\ UNCHANGED <<ruleVars, pmVars, callerVars, adapterVars, timerVars, pollerVars>>

InitLive ==
    InitFeed({c \in Configs : c.useAI /\ c.pushToVmix /\ c.vmixInput # "null"
                              /\ c.maxFeedSize = 2})
    /\ InitRulesIdle

ResumeLive == Logged(AddCommentResume)
ClassifierSettles == Logged(\E c \in SinkComments : \E r \in AIResponses : AIReturn(c, r))
SinkSettles ==
    Logged(\E p \in BagToSet(vmixPending) : \E ok \in BOOLEAN : VmixReply(p, ok))

NextLive ==
    \/ Logged(\E c \in SinkComments : AddCommentStart(c, MaxLiveCalls))
    \/ ResumeLive
    \/ ClassifierSettles
    \/ SinkSettles
    \/ Logged(\E ok \in BOOLEAN : moderatorInit(ok))

SpecLive ==
    /\ InitLive
    /\ [][NextLive]_vars
    /\ WF_vars(ResumeLive)
    /\ WF_vars(ClassifierSettles)

\* addComment calls that have not yet reached their verdict
Undecided == Len(mq) + BagCardinality(aiPending)

AnnOk == <<"a","n","n",":","o","k">>
\* allowed by the rules
cColonMessage == Comment("c7", "youtube", Ann, <<"o","k",":","k">>)
\* blocked by the rules: one character
cColonAuthor == Comment("c8", "twitch", AnnOk, <<"k">>)

KeyComments == {cColonMessage, cColonAuthor, cHello, cSpam}
InitKeys ==
    InitFeed({c \in Configs : c.pushToVmix /\ c.vmixInput = "null" /\ c.maxFeedSize = 2})
    /\ InitRulesIdle

NextKeys ==
    \E c \in KeyComments :
        /\ ModerateCall(c)
        /\ history' = Append(history, [c |-> c, out |-> modOut'])
        /\ UNCHANGED <<ruleVars, pmVars, callerVars, adapterVars, timerVars, pollerVars>>

SpecKeys == InitKeys /\ [][NextKeys]_vars

SamePair(a, b) == a.author = b.author /\ a.message = b.message

\* C33: two calls that use the same cache entry are about the same author
\* and the same message, so every call gets the verdict of its own comment.
C33_EntryPerPair ==
    \A i, j \in 1..Len(history) :
        /\ cacheKey(history[i].c) = cacheKey(history[j].c)
             => SamePair(history[i].c, history[j].c)
        /\ history[j].out = ruleCheck(history[j].c)

\* C34: in every state, states where clear() ran while addComment calls were
\* suspended in moderation included, total >= approved + blocked.
C34_TotalCoversOutcomes == stats.total >= stats.approved + stats.blocked

(***************************************************************************)
(* clear() and calls in flight                                             *)
(***************************************************************************)
\* The feed manager with the classifier; every comment is delivered once, the
\* operator clears the feed at any time. history logs the addComment calls
\* and the clear() calls in the order they were made.
RaceComments == {cHello, cThanks}
MaxRaceCalls == 2
MaxClears == 1

OpsIn(h, op) == {i \in 1..Len(h) : h[i].op = op}
Max(S) == IF S = {} THEN 0 ELSE CHOOSE x \in S : \A y \in S : y <= x

InitRace ==
    InitFeed({c \in Configs : c.useAI /\ ~c.pushToVmix /\ c.vmixInput = "null"
                              /\ c.maxFeedSize = 2})
    /\ InitRulesIdle

NextRace ==
    \/ \E c \in RaceComments :
         /\ \A i \in OpsIn(history, "start") : history[i].id # c.id
         /\ AddCommentStart(c, MaxRaceCalls)
         /\ history' = Append(history, [op |-> "start", id |-> c.id])
         /\ UNCHANGED <<ruleVars, pmVars, callerVars, adapterVars, timerVars, pollerVars>>
    \/ Quiet(AddCommentResume)
    \/ Quiet(\E c \in RaceComments : \E r \in AIResponses : AIReturn(c, r))
    \/ /\ Cardinality(OpsIn(history, "clear")) < MaxClears
       /\ clear
       /\ history' = Append(history, [op |-> "clear", id |-> "none"])
       /\ UNCHANGED <<ruleVars, pmVars, callerVars, adapterVars, timerVars, pollerVars>>
    \/ Quiet(\E ok \in BOOLEAN : moderatorInit(ok))

SpecRace == InitRace /\ [][NextRace]_vars

\* C35: every buffered comment was handed to addComment after the last
\* clear() returned.
C35_BufferedStartedAfterClear ==
    \A i \in 1..Len(feed) :
        \A s \in OpsIn(history, "start") :
            history[s].id = feed[i].id => s > Max(OpsIn(history, "clear"))

\* C36: no two entries of the buffer have the same id, also when a source
\* delivers one comment more than once.
C36_BufferIdsDistinct ==
    \A i, j \in 1..Len(feed) : i # j => feed[i].id # feed[j].id

\* C37: with pushToVmix disabled no request to the sink is ever made.
C37_NoSinkWriteWhenDisabled == ~config.pushToVmix => vmixPending = EmptyBag

(***************************************************************************)
(* Overlapping calls of the platform manager                               *)
(***************************************************************************)
\* Callers that do not await: addPlatform and removePlatform calls for one
\* name overlap, every start() and stop() of an adapter succeeds. history
\* logs the start() and stop() invocations on the instances in their order.
OverlapName == "twitch"
MaxRegCalls == 3

TopLevel(w) == {k \in 1..Len(w.calls) : w.calls[k].parent = 0}

\* the start() and stop() invocations the calls spawned from w to w2 made
InvokedBy(w, w2) ==
    LET new == SubSeq(w2.calls, Len(w.calls) + 1, Len(w2.calls))
        on == SelectSeq(new, LAMBDA c : c.pc \in {"awaitStart", "awaitStop"})
    IN [k \in 1..Len(on) |->
          [op |-> IF on[k].pc = "awaitStart" THEN "start" ELSE "stop",
           inst |-> on[k].inst]]

Overlapping(A) ==
    /\ A
    /\ live' = live \cup Started(pm')
    /\ history' = history \o InvokedBy(pm, pm')
    /\ UNCHANGED <<ruleVars, modVars, modGhosts, feedVars, nStarted, settled,
                   callerVars, timerVars, pollerVars>>

NextOverlap ==
    \/ Overlapping(\E autoStart \in BOOLEAN :
                     /\ Cardinality(TopLevel(pm)) < MaxRegCalls
                     /\ addPlatform(OverlapName, autoStart))
    \/ Overlapping(/\ Cardinality(TopLevel(pm)) < MaxRegCalls
                   /\ removePlatform(OverlapName))
    \/ Overlapping(\E id \in 1..Len(pm.calls) : StartSettles(id, "ok"))
    \/ Overlapping(\E id \in 1..Len(pm.calls) : StopSettles(id, "ok"))
    \/ Overlapping(\E id \in 1..Len(pm.calls) : Resume(id))

SpecOverlap == InitPlatforms /\ [][NextOverlap]_vars

\* start() was invoked on the instance and stop() was not invoked since
StartedNotStopped(inst) ==
    /\ \E k \in 1..Len(history) : history[k].inst = inst
    /\ history[Max({k \in 1..Len(history) : history[k].inst = inst})].op = "start"

\* C38: an instance whose events are forwarded, or that was started and not
\* stopped, is the instance the registry holds under its name.
C38_ActiveIsRegistered ==
    \A inst \in 1..Len(pm.instances) :
        (pm.instances[inst].wired \/ StartedNotStopped(inst))
            => /\ IsRegistered(pm, inst)
               /\ RegisteredAs(pm, inst) = pm.instances[inst].name

(***************************************************************************)
(* The polling adapter                                                     *)
(***************************************************************************)
\* One YouTubeChat instance: its owner calls start() and stop() at any
\* time, requests settle and timeouts fire in any order.
MaxStarts == 2
MaxPolls == 6
PollOutcomes == {"items", "empty", "error"}

Polling(A) ==
    /\ yt.issued < MaxPolls
    /\ A
    /\ UNCHANGED <<ruleVars, modVars, modGhosts, feedVars, nStarted, settled, history,
                   pmVars, callerVars, adapterVars, timerVars>>

NextPoller ==
    \/ Polling(yt.starts < MaxStarts /\ yt' = ytStart(yt))
    \/ Polling(\E op \in yt.ops : \E ok \in BOOLEAN :
                 op.kind = "resolve" /\ yt' = ytResolved(yt, op, ok))
    \/ Polling(\E op \in yt.ops : \E o \in PollOutcomes :
                 op.kind = "poll" /\ yt' = ytPollSettled(yt, op, o))
    \/ Polling(\E op \in yt.ops : op.kind = "timer" /\ yt' = ytTimerFired(yt, op))
    \/ Polling(yt' = ytStop(yt))

SpecPoller == InitPlatforms /\ [][NextPoller]_vars

\* C39: once stop() was called and what was pending at that moment has
\* settled, no poll is issued, no timeout is set and no comment is emitted.
C39_StoppedStaysQuiet ==
    [][(yt.stopped /\ yt'.stopped /\ yt.ops \cap yt.old = {})
         => /\ yt'.ops \subseteq yt.ops
            /\ \A i \in 1..Len(yt'.out) : yt'.out[i] # "comment"]_vars

(***************************************************************************)
(* Order of the buffer                                                     *)
(***************************************************************************)
\* The feed manager with the classifier: every comment is delivered once,
\* classifier replies come in any order, the operator pins and clears.
\* history logs the addComment calls, the approvals and the pins in their
\* order.
OrderComments == {cHello, cQuestion, cThanks}
OrderResponses == {r \in AIResponses : r.kind \in {"error", "text"}}
MaxOrderCalls == 3

InitOrder ==
    InitFeed({c \in Configs : c.useAI /\ ~c.pushToVmix /\ c.vmixInput = "null"
                              /\ c.maxFeedSize = 2})
    /\ InitRulesIdle

\* a step whose approvals and pins are added to the log
Noted(A) ==
    /\ A
    /\ history' = history \o LogOf(emitted')
    /\ UNCHANGED <<ruleVars, pmVars, callerVars, adapterVars, timerVars, pollerVars>>

NextOrder ==
    \/ \E c \in OrderComments :
         /\ \A i \in OpsIn(history, "start") : history[i].id # c.id
         /\ AddCommentStart(c, MaxOrderCalls)
         /\ history' = Append(history, [op |-> "start", id |-> c.id])
         /\ UNCHANGED <<ruleVars, pmVars, callerVars, adapterVars, timerVars, pollerVars>>
    \/ Noted(AddCommentResume)
    \/ Noted(\E c \in OrderComments : \E r \in OrderResponses : AIReturn(c, r))
    \/ Noted(\E id \in Ids :
               (FindIndex(feed, id) > 0 => PinsIn(history) < MaxPins) /\ pin(id))
    \/ Noted(clear)
    \/ Noted(~aiAvailable /\ moderatorInit(TRUE))

SpecOrder == InitOrder /\ [][NextOrder]_vars

NeverPinned == SelectSeq(feed, LAMBDA e : ~e.pinned)
ApprovalOf(id) ==
    Max({k \in OpsIn(history, "approved") : history[k].id = id})

\* C40: the buffered items that were never pinned are in reverse order of
\* their approval, in whatever order their addComment calls were started.
C40_UnpinnedNewestFirst ==
    \A i, j \in 1..Len(NeverPinned) :
        /\ ApprovalOf(NeverPinned[i].id) > 0
        /\ i < j => ApprovalOf(NeverPinned[i].id) > ApprovalOf(NeverPinned[j].id)

\* two comments were approved in the reverse of the order their calls were
\* started in, after a third was approved and pinned
C40_Witness ==
    /\ Len(NeverPinned) = 2
    /\ \E s1, s2 \in OpsIn(history, "start") :
         /\ s1 < s2
         /\ history[s1].id = NeverPinned[1].id
         /\ history[s2].id = NeverPinned[2].id
    /\ PinsIn(history) = 1
    /\ stats.approved = 3

====
